---- MODULE Spec2Model ----
(***************************************************************************)
(* A model of the single-pass bytecode compiler (include/compiler.hpp) and *)
(* the stack VM (include/vm.hpp) of rust-lox.                              *)
(*                                                                         *)
(* A behaviour is a sequence of VM::interpret calls on one VM object.      *)
(* Each call compiles a token stream (one action per parsing routine, the  *)
(* C++ call stack kept explicitly in `cstk`) and, if the compile           *)
(* succeeded, runs the chunk (one action per dispatched instruction).      *)
(***************************************************************************)
EXTENDS Integers, Sequences, FiniteSets, TLC

(***************************************************************************)
(* Bounds of the model and constants of the program                        *)
(***************************************************************************)

\* interpret calls made on the VM in one behaviour
MaxCalls == 2

\* vm.hpp:12
STACK_MAX == 256

\* UINT8_COUNT: capacity of Compiler::locals (compiler.hpp:150)
UINT8_COUNT == 256

\* UINT8_MAX, as compared against in makeConstant (compiler.hpp:440)
UINT8_MAX == 255

(***************************************************************************)
(* OpCode (include/opcode.hpp): the enumerators in declaration order       *)
(***************************************************************************)
OP_CONSTANT == 0
OP_NIL == 1
OP_TRUE == 2
OP_FALSE == 3
OP_POP == 4
OP_DEFINE_GLOBAL == 5
OP_GET_GLOBAL == 6
OP_SET_GLOBAL == 7
OP_SET_LOCAL == 8
OP_GET_LOCAL == 9
OP_EQUAL == 10
OP_GREATER == 11
OP_LESS == 12
OP_ADD == 13
OP_SUBTRACT == 14
OP_MULTIPLY == 15
OP_DIVIDE == 16
OP_NEGATE == 17
OP_NOT == 18
OP_PRINT == 19
OP_RETURN == 20

(***************************************************************************)
(* Value: std::variant<std::monostate, bool, double, std::string>.         *)
(* A double is modelled as an exact fraction n/d in lowest terms with      *)
(* d > 0; d = 0 encodes the non-finite results of a division by zero       *)
(* (n = 1: +inf, n = -1: -inf, n = 0: NaN).  Rounding is not modelled.     *)
(* A string is a sequence of one-character strings.                        *)
(***************************************************************************)
NilV == [k |-> "Nil"]
BoolV(b) == [k |-> "Bool", b |-> b]
StringV(s) == [k |-> "String", s |-> s]

Abs(x) == IF x < 0 THEN -x ELSE x
Sign(x) == IF x < 0 THEN -1 ELSE IF x > 0 THEN 1 ELSE 0

RECURSIVE Gcd(_, _)
Gcd(a, b) == IF b = 0 THEN a ELSE Gcd(b, a % b)

\* the double n/d, normalised
Frac(n, d) ==
    IF d = 0 THEN [k |-> "Number", n |-> Sign(n), d |-> 0]
    ELSE LET g == Gcd(Abs(n), Abs(d))
             s == IF d < 0 THEN -1 ELSE 1
         IN [k |-> "Number", n |-> (s * n) \div g, d |-> Abs(d) \div g]

NumberV(i) == Frac(i, 1)

IsNaN(x) == x.d = 0 /\ x.n = 0
IsInf(x) == x.d = 0 /\ x.n # 0

\* a + b on doubles
NumAdd(a, b) ==
    IF IsNaN(a) \/ IsNaN(b) THEN Frac(0, 0)
    ELSE IF IsInf(a) /\ IsInf(b) THEN (IF a.n = b.n THEN a ELSE Frac(0, 0))
    ELSE IF IsInf(a) THEN a
    ELSE IF IsInf(b) THEN b
    ELSE Frac(a.n * b.d + b.n * a.d, a.d * b.d)

NumNeg(a) == [k |-> "Number", n |-> -a.n, d |-> a.d]

\* a - b on doubles
NumSub(a, b) == NumAdd(a, NumNeg(b))

\* a * b on doubles
NumMul(a, b) ==
    IF IsNaN(a) \/ IsNaN(b) THEN Frac(0, 0)
    ELSE IF IsInf(a) \/ IsInf(b) THEN Frac(Sign(a.n) * Sign(b.n), 0)
    ELSE Frac(a.n * b.n, a.d * b.d)

\* a / b on doubles
NumDiv(a, b) ==
    IF IsNaN(a) \/ IsNaN(b) THEN Frac(0, 0)
    ELSE IF IsInf(a) THEN (IF IsInf(b) THEN Frac(0, 0)
                           ELSE Frac(a.n * (IF b.n < 0 THEN -1 ELSE 1), 0))
    ELSE IF IsInf(b) THEN Frac(0, 1)
    ELSE Frac(a.n * b.d, a.d * b.n)

\* a < b on doubles
NumLess(a, b) ==
    IF IsNaN(a) \/ IsNaN(b) THEN FALSE
    ELSE IF IsInf(a) \/ IsInf(b)
         THEN (IF IsInf(a) /\ IsInf(b) THEN a.n < b.n
               ELSE IF IsInf(a) THEN a.n < 0 ELSE b.n > 0)
    ELSE a.n * b.d < b.n * a.d

\* a > b on doubles
NumGreater(a, b) == NumLess(b, a)

\* a == b on doubles
NumEq(a, b) == ~IsNaN(a) /\ ~IsNaN(b) /\ a.n = b.n /\ a.d = b.d

\* operator== with a bool and a double compared as numbers (true as 1)
ValuesEqualCoerced(a, b) ==
    LET num(x) == IF x.k = "Bool" THEN (IF x.b THEN Frac(1, 1) ELSE Frac(0, 1)) ELSE x
    IN IF {a.k, b.k} = {"Bool", "Number"} THEN NumEq(num(a), num(b))
       ELSE /\ a.k = b.k
            /\ CASE a.k = "Nil" -> TRUE
                 [] a.k = "Bool" -> a.b = b.b
                 [] a.k = "Number" -> NumEq(a, b)
                 [] a.k = "String" -> a.s = b.s

\* operator== of the variant: same alternative and equal payloads
ValuesEqual(a, b) ==
    /\ a.k = b.k
    /\ CASE a.k = "Nil" -> TRUE
         [] a.k = "Bool" -> a.b = b.b
         [] a.k = "Number" -> NumEq(a, b)
         [] a.k = "String" -> a.s = b.s

(***************************************************************************)
(* Precedence (compiler.hpp:20-33), as the enumerators' integer values     *)
(***************************************************************************)
PREC_NONE == 0
PREC_ASSIGNMENT == 1
PREC_OR == 2
PREC_AND == 3
PREC_EQUALITY == 4
PREC_COMPARISON == 5
PREC_TERM == 6
PREC_FACTOR == 7
PREC_UNARY == 8
PREC_CALL == 9
PREC_PRIMARY == 10

(***************************************************************************)
(* Tokens.  Token = {type, text, line}; the text of an Identifier, String  *)
(* or Number token is its lexeme as a sequence of characters, the text of  *)
(* an Error token is the scanner's message.                                *)
(***************************************************************************)
Tok(type, text, line) == [type |-> type, text |-> text, line |-> line]

\* a Token before anything was assigned to it (Parser::current/previous
\* right after construction)
NoToken == Tok("None", <<>>, 0)

\* getRule: the row of the rule table for a token type
\* (prefix, infix: the name of the bound member function, "" for nullptr)
GetRule(type) ==
    CASE type = "LeftParen" -> [prefix |-> "grouping", infix |-> "", precedence |-> PREC_NONE]
      [] type = "Minus" -> [prefix |-> "unary", infix |-> "binary", precedence |-> PREC_TERM]
      [] type = "Plus" -> [prefix |-> "", infix |-> "binary", precedence |-> PREC_TERM]
      [] type \in {"Slash", "Star"} ->
            [prefix |-> "", infix |-> "binary", precedence |-> PREC_FACTOR]
      [] type = "Bang" -> [prefix |-> "unary", infix |-> "", precedence |-> PREC_NONE]
      [] type \in {"BangEqual", "EqualEqual"} ->
            [prefix |-> "", infix |-> "binary", precedence |-> PREC_EQUALITY]
      [] type \in {"Greater", "GreaterEqual", "Less", "LessEqual"} ->
            [prefix |-> "", infix |-> "binary", precedence |-> PREC_COMPARISON]
      [] type = "Identifier" -> [prefix |-> "variable", infix |-> "", precedence |-> PREC_NONE]
      [] type = "String" -> [prefix |-> "string", infix |-> "", precedence |-> PREC_NONE]
      [] type = "Number" -> [prefix |-> "number", infix |-> "", precedence |-> PREC_NONE]
      [] type \in {"False", "Nil", "True"} ->
            [prefix |-> "literal", infix |-> "", precedence |-> PREC_NONE]
      [] OTHER -> [prefix |-> "", infix |-> "", precedence |-> PREC_NONE]

(***************************************************************************)
(* Scanner (scanner.hpp is not part of the sources; interface of spec      *)
(* section 4.4): a lazy stream of the tokens of the source, then Eof.      *)
(***************************************************************************)
LastLine(src) == IF Len(src) = 0 THEN 1 ELSE src[Len(src)].line

ScanToken(src, pos) ==
    IF pos <= Len(src) THEN src[pos] ELSE Tok("Eof", <<>>, LastLine(src))

(***************************************************************************)
(* Chunk (chunk.hpp is not part of the sources; spec section 4.1)          *)
(***************************************************************************)
EmptyChunk == [code |-> <<>>, lines |-> <<>>, constants |-> <<>>]

\* Chunk::write(byte, line)
ChunkWrite(c, byte, line) ==
    [c EXCEPT !.code = Append(@, byte), !.lines = Append(@, line)]

\* Chunk::addConstant(value): the chunk after the call; the call returns
\* the index of the appended value, Len(c.constants) of the chunk before
ChunkAddConstant(c, value) == [c EXCEPT !.constants = Append(@, value)]

(***************************************************************************)
(* Parser (compiler.hpp:44-127).  A parser is the record                   *)
(*   [src, pos, current, previous, hadError, panicMode, diag, raised]      *)
(* src/pos: the scanner; diag: the diagnostics errorAt wrote to std::cerr; *)
(* raised: the history of the messages errorAt was called with, written    *)
(* or not.                                                                 *)
(***************************************************************************)
NewParser(src) ==
    [src |-> src, pos |-> 1, current |-> NoToken, previous |-> NoToken,
     hadError |-> FALSE, panicMode |-> FALSE, diag |-> <<>>, raised |-> <<>>]

\* errorAt without its first statement, if (parser.panicMode) return;
ErrorAtAlways(p, token, message) ==
    [p EXCEPT !.panicMode = TRUE, !.hadError = TRUE,
              !.diag = Append(@, [line |-> token.line, msg |-> message]),
              !.raised = Append(@, message)]

\* errorAt without its last statement, parser.hadError = true
ErrorAtNoFlag(p, token, message) ==
    IF p.panicMode THEN [p EXCEPT !.raised = Append(@, message)]
    ELSE [p EXCEPT !.panicMode = TRUE,
                   !.diag = Append(@, [line |-> token.line, msg |-> message]),
                   !.raised = Append(@, message)]

ErrorAt(p, token, message) ==
    IF p.panicMode THEN [p EXCEPT !.raised = Append(@, message)]
    ELSE [p EXCEPT !.panicMode = TRUE, !.hadError = TRUE,
                   !.diag = Append(@, [line |-> token.line, msg |-> message]),
                   !.raised = Append(@, message)]

ErrorAtCurrent(p, message) == ErrorAt(p, p.current, message)

Error(p, message) == ErrorAt(p, p.previous, message)

\* the while(true) loop of Parser::advance
RECURSIVE ScanValid(_)
ScanValid(p) ==
    LET p1 == [p EXCEPT !.current = ScanToken(p.src, p.pos),
                        !.pos = IF p.pos <= Len(p.src) THEN p.pos + 1 ELSE p.pos]
    IN IF p1.current.type # "Error" THEN p1
       ELSE ScanValid(ErrorAtCurrent(p1, p1.current.text))

Advance(p) == ScanValid([p EXCEPT !.previous = p.current])

Check(p, type) == p.current.type = type

Consume(p, type, message) ==
    IF p.current.type = type THEN Advance(p) ELSE ErrorAtCurrent(p, message)

\* Compilation::match: the parser after the call (the call returns Check)
Match(p, type) == IF ~Check(p, type) THEN p ELSE Advance(p)

(***************************************************************************)
(* Literals                                                                *)
(***************************************************************************)
DigitValue(ch) ==
    CASE ch = "0" -> 0 [] ch = "1" -> 1 [] ch = "2" -> 2 [] ch = "3" -> 3
      [] ch = "4" -> 4 [] ch = "5" -> 5 [] ch = "6" -> 6 [] ch = "7" -> 7
      [] ch = "8" -> 8 [] ch = "9" -> 9

RECURSIVE Pow10(_)
Pow10(n) == IF n = 0 THEN 1 ELSE 10 * Pow10(n - 1)

RECURSIVE DigitsValue(_)
DigitsValue(ds) ==
    IF Len(ds) = 0 THEN 0
    ELSE 10 * DigitsValue(SubSeq(ds, 1, Len(ds) - 1)) + DigitValue(ds[Len(ds)])

\* std::stod on a Number lexeme: digits, optionally "." and digits
Stod(text) ==
    LET dots == {i \in 1..Len(text) : text[i] = "."}
    IN IF dots = {} THEN Frac(DigitsValue(text), 1)
       ELSE LET i == CHOOSE j \in dots : TRUE
                fr == SubSeq(text, i + 1, Len(text))
            IN Frac(DigitsValue(SubSeq(text, 1, i - 1)) * Pow10(Len(fr)) + DigitsValue(fr),
                    Pow10(Len(fr)))

\* Compilation::string: the lexeme without its quotation marks
Unquote(text) == SubSeq(text, 2, Len(text) - 1)

(***************************************************************************)
(* Compilation (compiler.hpp:158-866).  The routines that do not recurse   *)
(* are operators on a record S = [parser, chunk, compiler, ret]:           *)
(*   parser   *Compilation::parser                                         *)
(*   chunk    *Compilation::compilingChunk                                 *)
(*   compiler Compilation::compiler = [locals, scopeDepth]; locals holds   *)
(*            the entries 0..localCount-1 of the array (the entries above  *)
(*            localCount are never read).  A Local is [name, depth, decl]: *)
(*            decl is history, the scopeDepth of the block whose           *)
(*            declaration added the local; no routine reads it.            *)
(*            open is history too: for each block now open, innermost      *)
(*            last, how many times declareVariable ran in it               *)
(*   ret      the value the routine returns                                *)
(***************************************************************************)
NewCompiler == [locals |-> <<>>, scopeDepth |-> 0, open |-> <<>>]

\* Compiler::localCount
LocalCount(k) == Len(k.locals)

WithParser(S, p) == [S EXCEPT !.parser = p]

\* static_cast<uint8_t>
AsUint8(n) == n % 256

\* emitByte(byte): one byte and the line of the previous token
\* emitByte with the line of the current token
EmitByteCurrentLine(S, byte) ==
    [S EXCEPT !.chunk = ChunkWrite(@, byte, S.parser.current.line)]

EmitByte(S, byte) ==
    [S EXCEPT !.chunk = ChunkWrite(@, byte, S.parser.previous.line)]

EmitBytes(S, byte1, byte2) == EmitByte(EmitByte(S, byte1), byte2)

\* makeConstant: the index is narrowed to uint8_t before it is compared
MakeConstant(S, value) ==
    LET constant == AsUint8(Len(S.chunk.constants))
        S1 == [S EXCEPT !.chunk = ChunkAddConstant(@, value)]
    IN IF constant > UINT8_MAX
       THEN [WithParser(S1, Error(S1.parser, "Too many constants in one chunk"))
                EXCEPT !.ret = 0]
       ELSE [S1 EXCEPT !.ret = constant]

EmitConstant(S, value) ==
    LET S1 == MakeConstant(S, value)
    IN EmitBytes(S1, OP_CONSTANT, S1.ret)

\* number
Number(S) == EmitConstant(S, Stod(S.parser.previous.text))

\* string
String(S) == EmitConstant(S, StringV(Unquote(S.parser.previous.text)))

\* literal
Literal(S) ==
    LET t == S.parser.previous.type
    IN CASE t = "False" -> EmitByte(S, OP_FALSE)
         [] t = "Nil" -> EmitByte(S, OP_NIL)
         [] t = "True" -> EmitByte(S, OP_TRUE)
         [] OTHER -> S

IdentifiersEqual(str1, str2) == str1 = str2

\* resolveLocal without the test of the depth of the local it finds
ResolveLocalNoCheck(S) ==
    LET ls == S.compiler.locals
        hits == {i \in 0..(Len(ls) - 1) :
                    IdentifiersEqual(S.parser.previous.text, ls[i + 1].name)}
    IN IF hits = {} THEN [S EXCEPT !.ret = -1]
       ELSE [S EXCEPT !.ret = CHOOSE h \in hits : \A g \in hits : g <= h]

\* resolveLocal: ret is the index of the newest local with the name of the
\* previous token, -1 if there is none
ResolveLocal(S) ==
    LET ls == S.compiler.locals
        hits == {i \in 0..(Len(ls) - 1) :
                    IdentifiersEqual(S.parser.previous.text, ls[i + 1].name)}
    IN IF hits = {} THEN [S EXCEPT !.ret = -1]
       ELSE LET i == CHOOSE h \in hits : \A g \in hits : g <= h
            IN IF ls[i + 1].depth = -1
               THEN [WithParser(S, Error(S.parser,
                        "Can't read local variable in its own initializer."))
                        EXCEPT !.ret = i]
               ELSE [S EXCEPT !.ret = i]

IdentifierConstant(S) == MakeConstant(S, StringV(S.parser.previous.text))

\* addLocal without the test of localCount
AddLocalUnbounded(S, name) ==
    [S EXCEPT !.compiler.locals =
                 Append(@, [name |-> name, depth |-> -1,
                            decl |-> S.compiler.scopeDepth])]

\* addLocal with the local initialized as soon as it is added
AddLocalInitialized(S, name) ==
    IF LocalCount(S.compiler) = UINT8_COUNT
    THEN WithParser(S, Error(S.parser, "Too many local variables declared in function."))
    ELSE [S EXCEPT !.compiler.locals =
                      Append(@, [name |-> name, depth |-> S.compiler.scopeDepth,
                                 decl |-> S.compiler.scopeDepth])]

\* addLocal
AddLocal(S, name) ==
    IF LocalCount(S.compiler) = UINT8_COUNT
    THEN WithParser(S, Error(S.parser, "Too many local variables declared in function."))
    ELSE [S EXCEPT !.compiler.locals =
                      Append(@, [name |-> name, depth |-> -1,
                                 decl |-> S.compiler.scopeDepth])]

\* an error reported n times
RECURSIVE ErrorTimes(_, _, _)
ErrorTimes(p, message, n) ==
    IF n = 0 THEN p ELSE ErrorTimes(Error(p, message), message, n - 1)

\* the for loop of declareVariable, from index i down: the parser after it.
\* The loop breaks at the newest local of an enclosing scope and reports
\* every local above it that has the name
RedefinitionScan(p, k, name, i) ==
    LET breaks == {j \in 0..i : k.locals[j + 1].depth # -1
                                 /\ k.locals[j + 1].depth < k.scopeDepth}
        first == IF breaks = {} THEN 0
                 ELSE 1 + CHOOSE j \in breaks : \A h \in breaks : h <= j
        same == {j \in first..i : IdentifiersEqual(name, k.locals[j + 1].name)}
    IN ErrorTimes(p, "Re-definition of an existing variable in this scope.",
                  Cardinality(same))

\* declareVariable
DeclareVariable(S) ==
    IF S.compiler.scopeDepth = 0 THEN S
    ELSE LET name == S.parser.previous.text
             p1 == RedefinitionScan(S.parser, S.compiler, name,
                                    LocalCount(S.compiler) - 1)
             S1 == [S EXCEPT !.compiler.open[Len(S.compiler.open)] = @ + 1]
         IN AddLocal(WithParser(S1, p1), name)

\* parseVariable: ret is the index of the name in the constant table
ParseVariable(S, message) ==
    LET S1 == WithParser(S, Consume(S.parser, "Identifier", message))
        S2 == DeclareVariable(S1)
    IN IF S2.compiler.scopeDepth > 0 THEN [S2 EXCEPT !.ret = 0]
       ELSE IdentifierConstant(S2)

\* markInitialized with the depth of the enclosing scope
MarkInitializedOuter(S) ==
    LET n == LocalCount(S.compiler)
    IN IF n = 0 THEN S
       ELSE [S EXCEPT !.compiler.locals[n].depth = S.compiler.scopeDepth - 1]

\* markInitialized: writes locals[localCount - 1]
MarkInitialized(S) ==
    LET n == LocalCount(S.compiler)
    IN IF n = 0 THEN S
       ELSE [S EXCEPT !.compiler.locals[n].depth = S.compiler.scopeDepth]

\* defineVariable
DefineVariable(S, global) ==
    IF S.compiler.scopeDepth > 0 THEN MarkInitialized(S)
    ELSE EmitBytes(S, OP_DEFINE_GLOBAL, global)

\* beginScope
BeginScope(S) ==
    [S EXCEPT !.compiler.scopeDepth = @ + 1, !.compiler.open = Append(@, 0)]

\* the while loop of endScope: one POP for each local popped; depth is an
\* int compared with the size_t scopeDepth, so a negative depth compares as
\* greater
PopLocals(S) ==
    LET ls == S.compiler.locals
        stays == {j \in 1..Len(ls) : ~(ls[j].depth < 0
                                        \/ ls[j].depth > S.compiler.scopeDepth)}
        n == IF stays = {} THEN 0 ELSE CHOOSE j \in stays : \A h \in stays : h <= j
        line == S.parser.previous.line
    IN [S EXCEPT !.compiler.locals = SubSeq(ls, 1, n),
                 !.chunk.code = @ \o [j \in 1..(Len(ls) - n) |-> OP_POP],
                 !.chunk.lines = @ \o [j \in 1..(Len(ls) - n) |-> line]]

\* endScope without its while loop
EndScopeNoPop(S) ==
    [S EXCEPT !.compiler.scopeDepth = @ - 1,
              !.compiler.open = SubSeq(@, 1, Len(@) - 1)]

\* endScope
EndScope(S) ==
    PopLocals([S EXCEPT !.compiler.scopeDepth = @ - 1,
                        !.compiler.open = SubSeq(@, 1, Len(@) - 1)])

\* synchronize
RECURSIVE SkipToBoundary(_)
SkipToBoundary(p) ==
    IF p.current.type = "Eof" THEN p
    ELSE IF p.previous.type = "Semicolon" THEN p
    ELSE IF p.current.type \in {"Class", "Fun", "Var", "For", "If", "While",
                                "Print", "Return"} THEN p
    ELSE SkipToBoundary(Advance(p))

\* synchronize without its first statement, parser->panicMode = false
SynchronizeNoClear(p) == SkipToBoundary(p)

Synchronize(p) == SkipToBoundary([p EXCEPT !.panicMode = FALSE])

\* the opcodes binary emits for an operator token
BinaryOps(operatorType) ==
    CASE operatorType = "BangEqual" -> <<OP_EQUAL, OP_NOT>>
      [] operatorType = "EqualEqual" -> <<OP_EQUAL>>
      [] operatorType = "Greater" -> <<OP_GREATER>>
      [] operatorType = "GreaterEqual" -> <<OP_LESS, OP_NOT>>
      [] operatorType = "Less" -> <<OP_LESS>>
      [] operatorType = "LessEqual" -> <<OP_GREATER, OP_NOT>>
      [] operatorType = "Plus" -> <<OP_ADD>>
      [] operatorType = "Minus" -> <<OP_SUBTRACT>>
      [] operatorType = "Star" -> <<OP_MULTIPLY>>
      [] operatorType = "Slash" -> <<OP_DIVIDE>>
      [] OTHER -> <<>>

\* the opcodes unary emits for an operator token
UnaryOps(operatorType) ==
    CASE operatorType = "Minus" -> <<OP_NEGATE>>
      [] operatorType = "Bang" -> <<OP_NOT>>
      [] OTHER -> <<>>

RECURSIVE EmitAll(_, _)
EmitAll(S, bytes) ==
    IF bytes = <<>> THEN S ELSE EmitAll(EmitByte(S, Head(bytes)), Tail(bytes))

(***************************************************************************)
(* State                                                                   *)
(***************************************************************************)
VARIABLES
    pool,       \* names the set of sources the driver may hand to interpret
    phase,      \* "idle", "compile", "run", "returned", "dead"
    calls,      \* interpret calls started so far
    result,     \* what the last interpret call returned, or how it ended
    parser,     \* *cu.parser
    chunk,      \* the Chunk of the running interpret call
    compiler,   \* cu.compiler
    cstk,       \* the pending routines of the compiler, innermost last
    pos,        \* VM::pos
    stack,      \* the operand stack, bottom first
    under,      \* how many of the cells of stack lie below stack.data()
    ub,         \* the VM has accessed a cell outside of the stack array
    globals,    \* VM::globals
    out,        \* what the call wrote to std::cout
    errout      \* what runTimeError wrote to std::cerr

vars == <<pool, phase, calls, result, parser, chunk, compiler, cstk,
          pos, stack, under, ub, globals, out, errout>>

vmVars == <<pos, stack, under, ub, globals, out, errout>>

\* stackTop - stack.data()
StackTop == Len(stack) - under

\* the record the compiler routines work on
Cur == [parser |-> parser, chunk |-> chunk, compiler |-> compiler, ret |-> 0]

Frame(pc, a, b) == [pc |-> pc, a |-> a, b |-> b]

Top == cstk[Len(cstk)]

Rest == SubSeq(cstk, 1, Len(cstk) - 1)

At(pc) == phase = "compile" /\ Len(cstk) > 0 /\ Top.pc = pc

\* the variables a compiler step sets from the record S and the stack k
Step(S, k) ==
    /\ parser' = S.parser
    /\ chunk' = S.chunk
    /\ compiler' = S.compiler
    /\ cstk' = k
    /\ UNCHANGED <<pool, phase, calls, result>>
    /\ UNCHANGED vmVars

\* expression(): parsePrecedence(Precedence::Assignment)
Expression == Frame("parsePrecedence", PREC_ASSIGNMENT, 0)

(***************************************************************************)
(* VM::interpret(std::string_view) and Compilation::compile                *)
(***************************************************************************)

\* interpret is called: compile makes the parser and advances once
Interpret(src) ==
    /\ phase = "idle"
    /\ calls' = calls + 1
    /\ phase' = "compile"
    /\ result' = "NONE"
    /\ chunk' = EmptyChunk
    /\ parser' = Advance(NewParser(src))
    /\ cstk' = <<Frame("compile", 0, 0)>>
    /\ out' = <<>>
    /\ errout' = <<>>
    /\ UNCHANGED <<pool, compiler, pos, stack, under, ub, globals>>

\* the loop of compile: while (!match(Eof)) declaration();
CompileLoop ==
    /\ At("compile")
    /\ ~Check(parser, "Eof")
    /\ Step(Cur, Append(cstk, Frame("declaration", 0, 0)))

\* the end of compile and what interpret does with its result
CompileEnd ==
    /\ At("compile")
    /\ Check(parser, "Eof")
    /\ LET S == EmitByte(WithParser(Cur, Advance(parser)), OP_RETURN)
       IN /\ parser' = S.parser
          /\ chunk' = S.chunk
          /\ compiler' = S.compiler
          /\ cstk' = <<>>
          /\ IF S.parser.hadError
             THEN /\ phase' = "returned"
                  /\ result' = "COMPILE_ERROR"
                  /\ pos' = pos
             ELSE /\ phase' = "run"
                  /\ result' = result
                  /\ pos' = 0
    /\ UNCHANGED <<pool, calls, stack, under, ub, globals, out, errout>>

\* declaration, up to the call of varDeclaration or statement
Declaration ==
    /\ At("declaration")
    /\ IF Check(parser, "Var")
       THEN Step(WithParser(Cur, Advance(parser)),
                 Rest \o <<Frame("declarationEnd", 0, 0), Frame("varDeclaration", 0, 0)>>)
       ELSE Step(Cur,
                 Rest \o <<Frame("declarationEnd", 0, 0), Frame("statement", 0, 0)>>)

\* declaration: if (parser->panicMode) synchronize();
DeclarationEnd ==
    /\ At("declarationEnd")
    /\ Step(IF parser.panicMode THEN WithParser(Cur, Synchronize(parser)) ELSE Cur,
            Rest)

\* varDeclaration, up to the initializer
VarDeclaration ==
    /\ At("varDeclaration")
    /\ LET S1 == ParseVariable(Cur, "Expect variable name.")
           global == S1.ret
       IN IF Check(S1.parser, "Equal")
          THEN Step(WithParser(S1, Advance(S1.parser)),
                    Rest \o <<Frame("varDeclarationEnd", global, 0), Expression>>)
          ELSE Step(EmitByte(S1, OP_NIL),
                    Rest \o <<Frame("varDeclarationEnd", global, 0)>>)

\* varDeclaration, after the initializer
VarDeclarationEnd ==
    /\ At("varDeclarationEnd")
    /\ LET S1 == WithParser(Cur, Consume(parser, "Semicolon",
                                "Expect ';' after variable declaration."))
       IN Step(DefineVariable(S1, Top.a), Rest)

\* statement
Statement ==
    /\ At("statement")
    /\ IF Check(parser, "Print")
       THEN Step(WithParser(Cur, Advance(parser)),
                 Rest \o <<Frame("printStatementEnd", 0, 0), Expression>>)
       ELSE IF Check(parser, "LeftBrace")
       THEN Step(BeginScope(WithParser(Cur, Advance(parser))),
                 Rest \o <<Frame("endScope", 0, 0), Frame("block", 0, 0)>>)
       ELSE Step(Cur, Rest \o <<Frame("expressionStatementEnd", 0, 0), Expression>>)

\* printStatement, after the expression
PrintStatementEnd ==
    /\ At("printStatementEnd")
    /\ Step(EmitByte(WithParser(Cur, Consume(parser, "Semicolon",
                                   "Expected ';' after value.")), OP_PRINT),
            Rest)

\* expressionStatement, after the expression
ExpressionStatementEnd ==
    /\ At("expressionStatementEnd")
    /\ Step(EmitByte(WithParser(Cur, Consume(parser, "Semicolon",
                                   "Expect ';' after expression.")), OP_POP),
            Rest)

\* block: one turn of the loop, or the consume after it
Block ==
    /\ At("block")
    /\ IF ~Check(parser, "RightBrace") /\ ~Check(parser, "Eof")
       THEN Step(Cur, Append(cstk, Frame("declaration", 0, 0)))
       ELSE Step(WithParser(Cur, Consume(parser, "RightBrace",
                                "Expect '}': no matching token found.")),
                 Rest)

\* statement: endScope() after block()
EndScopeStep ==
    /\ At("endScope")
    /\ Step(EndScope(Cur), Rest)

\* namedVariable, up to the test for '=': ret = [arg, getOp, setOp]
NamedVariable(S) ==
    LET S1 == ResolveLocal(S)
    IN IF S1.ret # -1
       THEN [S1 EXCEPT !.ret = [arg |-> S1.ret, getOp |-> OP_GET_LOCAL,
                                setOp |-> OP_SET_LOCAL]]
       ELSE LET S2 == IdentifierConstant(S1)
            IN [S2 EXCEPT !.ret = [arg |-> S2.ret, getOp |-> OP_GET_GLOBAL,
                                   setOp |-> OP_SET_GLOBAL]]

\* parsePrecedence, up to the loop over the infix operators; the prefix
\* rules that recurse leave their second half on cstk
ParsePrecedence ==
    /\ At("parsePrecedence")
    /\ LET precedence == Top.a
           S == WithParser(Cur, Advance(parser))
           prefixRule == GetRule(S.parser.previous.type).prefix
           canAssign == precedence <= PREC_ASSIGNMENT
           loop == Frame("parseInfix", precedence, 0)
       IN CASE prefixRule = "" ->
                 Step(WithParser(S, Error(S.parser, "Expected expression.")), Rest)
            [] prefixRule = "number" -> Step(Number(S), Append(Rest, loop))
            [] prefixRule = "string" -> Step(String(S), Append(Rest, loop))
            [] prefixRule = "literal" -> Step(Literal(S), Append(Rest, loop))
            [] prefixRule = "grouping" ->
                 Step(S, Rest \o <<loop, Frame("groupingEnd", 0, 0), Expression>>)
            [] prefixRule = "unary" ->
                 Step(S, Rest \o <<loop, Frame("unaryEnd", S.parser.previous.type, 0),
                                   Frame("parsePrecedence", PREC_UNARY, 0)>>)
            [] prefixRule = "variable" ->
                 LET S1 == NamedVariable(S)
                 IN IF canAssign /\ Check(S1.parser, "Equal")
                    THEN Step(WithParser(S1, Advance(S1.parser)),
                              Rest \o <<loop,
                                        Frame("namedVariableEnd", S1.ret.setOp, S1.ret.arg),
                                        Expression>>)
                    ELSE Step(EmitBytes(S1, S1.ret.getOp, AsUint8(S1.ret.arg)),
                              Append(Rest, loop))

\* parsePrecedence without its last statement, the test for '='
ParseInfixNoTargetCheck ==
    /\ At("parseInfix")
    /\ LET precedence == Top.a
       IN IF precedence <= GetRule(parser.current.type).precedence
          THEN LET S == WithParser(Cur, Advance(parser))
                   operatorType == S.parser.previous.type
               IN Step(S, cstk \o <<Frame("binaryEnd", operatorType, 0),
                                    Frame("parsePrecedence",
                                          GetRule(operatorType).precedence + 1, 0)>>)
          ELSE Step(Cur, Rest)

\* the while loop with binary parsing its right operand at the precedence
\* of its own operator
ParseInfixSamePrecedence ==
    /\ At("parseInfix")
    /\ LET precedence == Top.a
           canAssign == precedence <= PREC_ASSIGNMENT
       IN IF precedence <= GetRule(parser.current.type).precedence
          THEN LET S == WithParser(Cur, Advance(parser))
                   operatorType == S.parser.previous.type
               IN Step(S, cstk \o <<Frame("binaryEnd", operatorType, 0),
                                    Frame("parsePrecedence",
                                          GetRule(operatorType).precedence, 0)>>)
          ELSE IF canAssign /\ Check(parser, "Equal")
          THEN LET p1 == Advance(parser)
               IN Step(WithParser(Cur, Error(p1, "Invalid assignment target.")), Rest)
          ELSE Step(Cur, Rest)

\* parsePrecedence: one turn of the while loop (the call of binary, up to
\* its operand), or the test for an invalid assignment target after it
ParseInfix ==
    /\ At("parseInfix")
    /\ LET precedence == Top.a
           canAssign == precedence <= PREC_ASSIGNMENT
       IN IF precedence <= GetRule(parser.current.type).precedence
          THEN LET S == WithParser(Cur, Advance(parser))
                   operatorType == S.parser.previous.type
               IN Step(S, cstk \o <<Frame("binaryEnd", operatorType, 0),
                                    Frame("parsePrecedence",
                                          GetRule(operatorType).precedence + 1, 0)>>)
          ELSE IF canAssign /\ Check(parser, "Equal")
          THEN LET p1 == Advance(parser)
               IN Step(WithParser(Cur, Error(p1, "Invalid assignment target.")), Rest)
          ELSE Step(Cur, Rest)

\* grouping, after the expression
GroupingEnd ==
    /\ At("groupingEnd")
    /\ Step(WithParser(Cur, Consume(parser, "RightParen",
                          "Expect ')' after expression.")), Rest)

\* unary, after the operand
UnaryEnd ==
    /\ At("unaryEnd")
    /\ Step(EmitAll(Cur, UnaryOps(Top.a)), Rest)

\* binary, after the right operand
BinaryEnd ==
    /\ At("binaryEnd")
    /\ Step(EmitAll(Cur, BinaryOps(Top.a)), Rest)

\* namedVariable, after the assigned expression
NamedVariableEnd ==
    /\ At("namedVariableEnd")
    /\ Step(EmitBytes(Cur, Top.a, AsUint8(Top.b)), Rest)

(***************************************************************************)
(* VM::run (vm.hpp:75-257): one action per instruction dispatched.         *)
(***************************************************************************)
Running == phase = "run"

\* the byte readByte returns next (pos counts from 0)
CanFetch == pos < Len(chunk.code)
Byte == chunk.code[pos + 1]
HasOperand == pos + 1 < Len(chunk.code)
Operand == chunk.code[pos + 2]

ConstantOps == {OP_CONSTANT, OP_DEFINE_GLOBAL, OP_GET_GLOBAL, OP_SET_GLOBAL}
NameOps == {OP_DEFINE_GLOBAL, OP_GET_GLOBAL, OP_SET_GLOBAL}
BinaryOpCodes == {OP_SUBTRACT, OP_DIVIDE, OP_MULTIPLY, OP_GREATER, OP_LESS}
CaseLabels == ConstantOps \cup BinaryOpCodes \cup
              {OP_ADD, OP_NOT, OP_NEGATE, OP_PRINT, OP_NIL, OP_TRUE, OP_FALSE,
               OP_POP, OP_EQUAL, OP_RETURN}

\* readByte, readConstant and readString are noexcept: an exception of
\* at() or std::get in them ends the process in std::terminate
ReadThrows ==
    \/ ~CanFetch
    \/ /\ Byte \in ConstantOps
       /\ \/ ~HasOperand
          \/ Operand >= Len(chunk.constants)
          \/ Byte \in NameOps /\ chunk.constants[Operand + 1].k # "String"

\* readConstant() / readString() of the instruction at pos
Constant == chunk.constants[Operand + 1]
Name == Constant.s

\* peek(offset)
Peek(offset) == stack[Len(stack) - offset]

\* the stack without its n topmost values
Popped(n) == SubSeq(stack, 1, Len(stack) - n)

\* how many values the instruction at pos reads from the stack
StackNeed ==
    CASE Byte \in {OP_POP, OP_PRINT, OP_NOT, OP_NEGATE, OP_DEFINE_GLOBAL} -> 1
      [] Byte = OP_SET_GLOBAL -> IF Name \in DOMAIN globals THEN 1 ELSE 0
      [] Byte \in BinaryOpCodes \cup {OP_ADD, OP_EQUAL} -> 2
      [] OTHER -> 0

\* the instruction at pos calls push with as many values on the stack as
\* it found
PushesOnTop ==
    \/ Byte \in {OP_CONSTANT, OP_NIL, OP_TRUE, OP_FALSE}
    \/ Byte = OP_GET_GLOBAL /\ Name \in DOMAIN globals

\* the instruction at pos can be run on the values the stack holds
Ready == Running /\ ~ReadThrows /\ Len(stack) >= StackNeed

\* push writes to *stackTop without a test (vm.hpp:267-272)
PushOutOfArray == PushesOnTop /\ (StackTop >= STACK_MAX \/ StackTop < 0)

\* the rest of the state of an instruction that goes on to the next one
Continue(n) ==
    /\ pos' = pos + n
    /\ UNCHANGED <<pool, phase, calls, result, parser, chunk, compiler, cstk>>

\* run returns r to interpret, which returns it to its caller
Return(r) ==
    /\ phase' = "returned"
    /\ result' = r
    /\ UNCHANGED <<pool, calls, parser, chunk, compiler, cstk>>

\* the process ends: std::terminate, an exception that leaves interpret,
\* or a crash on an access outside of the stack array
Die(how) ==
    /\ phase' = "dead"
    /\ result' = how
    /\ UNCHANGED <<pool, calls, parser, chunk, compiler, cstk>>

\* the line runTimeError looks up, with pos already past the bytes read:
\* both lookups use at()
ErrorLineIndex(p) == chunk.code[p]
ErrorLineKnown(p) == ErrorLineIndex(p) < Len(chunk.lines)
ErrorLine(p) == chunk.lines[ErrorLineIndex(p) + 1]

\* the arguments GET_GLOBAL and SET_GLOBAL hand to runTimeError, written
\* one after the other
UndefinedVariable(name) == <<"Undefined variable '">> \o name \o <<"'.">>

\* runTimeError(message) with pos = p, then `return r` in run; the message
\* is the sequence of the strings written, a string of the source as its
\* characters; a line of
\* -1 in errout: the message was written and the lookup of the line threw
RunTimeError(message, p, r) ==
    /\ pos' = p
    /\ UNCHANGED <<globals, out>>
    /\ IF ErrorLineKnown(p)
       THEN /\ errout' = Append(errout, [msg |-> message, line |-> ErrorLine(p)])
            /\ stack' = <<>>
            /\ under' = 0
            /\ ub' = ub
            /\ Return(r)
       ELSE /\ errout' = Append(errout, [msg |-> message, line |-> -1])
            /\ UNCHANGED <<stack, under, ub>>
            /\ Die("std::out_of_range")

\* the noexcept readers throw
Terminate ==
    /\ Running
    /\ ReadThrows
    /\ Die("std::terminate")
    /\ UNCHANGED vmVars

\* the instruction at pos reads below the stack array, or pushes outside
\* of it: undefined behaviour.  The process crashes, or it goes on with
\* whatever the memory below the array holds (push then goes on as the
\* instruction's own action says)
GarbageValues == {NilV, NumberV(0)}

StackUB ==
    /\ Running
    /\ ~ReadThrows
    /\ \/ /\ Len(stack) < StackNeed \/ PushOutOfArray
          /\ Die("crash")
          /\ UNCHANGED vmVars
       \/ /\ Len(stack) < StackNeed
          /\ \E g \in GarbageValues : stack' = <<g>> \o stack
          /\ under' = under + 1
          /\ ub' = TRUE
          /\ Continue(0)
          /\ UNCHANGED <<globals, out, errout>>

\* the stack after push(v) on the stack s
PushOn(s, v) ==
    /\ stack' = Append(s, v)
    /\ under' = under
    /\ ub' = (ub \/ Len(s) - under >= STACK_MAX \/ Len(s) - under < 0)

\* the stack after pops only
PopTo(s) ==
    /\ stack' = s
    /\ under' = under
    /\ ub' = ub

OpConstant ==
    /\ Ready /\ Byte = OP_CONSTANT
    /\ PushOn(stack, Constant)
    /\ Continue(2)
    /\ UNCHANGED <<globals, out, errout>>

OpLiteral ==
    /\ Ready /\ Byte \in {OP_NIL, OP_TRUE, OP_FALSE}
    /\ PushOn(stack, CASE Byte = OP_NIL -> NilV
                       [] Byte = OP_TRUE -> BoolV(TRUE)
                       [] Byte = OP_FALSE -> BoolV(FALSE))
    /\ Continue(1)
    /\ UNCHANGED <<globals, out, errout>>

OpPop ==
    /\ Ready /\ Byte = OP_POP
    /\ PopTo(Popped(1))
    /\ Continue(1)
    /\ UNCHANGED <<globals, out, errout>>

OpPrint ==
    /\ Ready /\ Byte = OP_PRINT
    /\ out' = Append(out, Peek(0))
    /\ PopTo(Popped(1))
    /\ Continue(1)
    /\ UNCHANGED <<globals, errout>>

OpReturn ==
    /\ Ready /\ Byte = OP_RETURN
    /\ pos' = pos + 1
    /\ Return("OK")
    /\ UNCHANGED <<stack, under, ub, globals, out, errout>>

\* a byte the switch has no case for (GET_LOCAL and SET_LOCAL among them):
\* nothing is done and the loop reads the next byte
OpNoCase ==
    /\ Ready /\ Byte \notin CaseLabels
    /\ Continue(1)
    /\ UNCHANGED <<stack, under, ub, globals, out, errout>>

\* FalseyVistor: an overload for bool, one for std::monostate, and a
\* template for every other alternative
IsFalsey(v) ==
    CASE v.k = "Bool" -> ~v.b
      [] v.k = "Nil" -> TRUE
      [] OTHER -> TRUE

OpNot ==
    /\ Ready /\ Byte = OP_NOT
    /\ PushOn(Popped(1), BoolV(IsFalsey(Peek(0))))
    /\ Continue(1)
    /\ UNCHANGED <<globals, out, errout>>

OpNegate ==
    /\ Ready /\ Byte = OP_NEGATE
    /\ IF Peek(0).k = "Number"
       THEN /\ PushOn(Popped(1), NumNeg(Peek(0)))
            /\ Continue(1)
            /\ UNCHANGED <<globals, out, errout>>
       ELSE RunTimeError(<<"Operand must be a number.">>, pos + 1, "RUNTIME_ERROR")

OpEqual ==
    /\ Ready /\ Byte = OP_EQUAL
    /\ PushOn(Popped(2), BoolV(ValuesEqual(Peek(0), Peek(1))))
    /\ Continue(1)
    /\ UNCHANGED <<globals, out, errout>>

\* the lambda with its operands the other way round, b op a
BinaryLambdaSwapped(byte, b, a) ==
    CASE byte = OP_SUBTRACT -> NumSub(b, a)
      [] byte = OP_DIVIDE -> NumDiv(b, a)
      [] byte = OP_MULTIPLY -> NumMul(b, a)
      [] byte = OP_GREATER -> BoolV(NumGreater(b, a))
      [] byte = OP_LESS -> BoolV(NumLess(b, a))

\* the lambda BINARY_OP(op) passes to binaryOp: its first parameter is
\* named b, its second a, and it returns a op b
BinaryLambda(byte, b, a) ==
    CASE byte = OP_SUBTRACT -> NumSub(a, b)
      [] byte = OP_DIVIDE -> NumDiv(a, b)
      [] byte = OP_MULTIPLY -> NumMul(a, b)
      [] byte = OP_GREATER -> BoolV(NumGreater(a, b))
      [] byte = OP_LESS -> BoolV(NumLess(a, b))

\* what run returns when binaryOp returns false (the macro BINARY_OP)
BinaryOpFailure == "COMPILE_ERROR"

\* binaryOp: a is the top of the stack, b the value below it
OpBinary ==
    /\ Ready /\ Byte \in BinaryOpCodes
    /\ IF Peek(0).k = "Number" /\ Peek(1).k = "Number"
       THEN /\ PushOn(Popped(2), BinaryLambda(Byte, Peek(0), Peek(1)))
            /\ Continue(1)
            /\ UNCHANGED <<globals, out, errout>>
       ELSE RunTimeError(<<"Operands must be numbers.">>, pos + 1, BinaryOpFailure)

\* ADD: std::visit over (peek(1), peek(0))
OpAdd ==
    /\ Ready /\ Byte = OP_ADD
    /\ LET v1 == Peek(1)
           v2 == Peek(0)
       IN CASE v1.k = "Number" /\ v2.k = "Number" ->
                 /\ PushOn(Popped(2), NumAdd(v1, v2))
                 /\ Continue(1)
                 /\ UNCHANGED <<globals, out, errout>>
            [] v1.k = "String" /\ v2.k = "String" ->
                 /\ PushOn(Popped(2), StringV(v1.s \o v2.s))
                 /\ Continue(1)
                 /\ UNCHANGED <<globals, out, errout>>
            [] OTHER ->
                 RunTimeError(<<"Operands must be two numbers or two strings.">>,
                              pos + 1, "RUNTIME_ERROR")

\* globals.clear(); globals[name] = value
BindAlone(g, name, value) == [n \in {name} |-> value]

\* globals[name] = value
Bind(g, name, value) ==
    [n \in DOMAIN g \cup {name} |-> IF n = name THEN value ELSE g[n]]

OpGetGlobal ==
    /\ Ready /\ Byte = OP_GET_GLOBAL
    /\ IF Name \notin DOMAIN globals
       THEN RunTimeError(UndefinedVariable(Name), pos + 2, "RUNTIME_ERROR")
       ELSE /\ PushOn(stack, globals[Name])
            /\ Continue(2)
            /\ UNCHANGED <<globals, out, errout>>

\* DEFINE_GLOBAL without its pop()
OpDefineGlobalNoPop ==
    /\ Ready /\ Byte = OP_DEFINE_GLOBAL
    /\ globals' = Bind(globals, Name, Peek(0))
    /\ PopTo(stack)
    /\ Continue(2)
    /\ UNCHANGED <<out, errout>>

OpDefineGlobal ==
    /\ Ready /\ Byte = OP_DEFINE_GLOBAL
    /\ globals' = Bind(globals, Name, Peek(0))
    /\ PopTo(Popped(1))
    /\ Continue(2)
    /\ UNCHANGED <<out, errout>>

\* SET_GLOBAL that defines the name when it is not defined
OpSetGlobalCreates ==
    /\ Ready /\ Byte = OP_SET_GLOBAL
    /\ Len(stack) >= 1
    /\ globals' = Bind(globals, Name, Peek(0))
    /\ Continue(2)
    /\ UNCHANGED <<stack, under, ub, out, errout>>

\* SET_GLOBAL that pops the value it assigned
OpSetGlobalPops ==
    /\ Ready /\ Byte = OP_SET_GLOBAL
    /\ IF Name \notin DOMAIN globals
       THEN RunTimeError(UndefinedVariable(Name), pos + 2, "RUNTIME_ERROR")
       ELSE /\ globals' = Bind(globals, Name, Peek(0))
            /\ PopTo(Popped(1))
            /\ Continue(2)
            /\ UNCHANGED <<out, errout>>

OpSetGlobal ==
    /\ Ready /\ Byte = OP_SET_GLOBAL
    /\ IF Name \notin DOMAIN globals
       THEN RunTimeError(UndefinedVariable(Name), pos + 2, "RUNTIME_ERROR")
       ELSE /\ globals' = Bind(globals, Name, Peek(0))
            /\ Continue(2)
            /\ UNCHANGED <<stack, under, ub, out, errout>>

\* the caller of interpret has the result; the Chunk of the call was
\* destroyed when interpret returned (vm.hpp:57-63).  The parser object
\* stays until the next compile replaces it (compiler.hpp:202) and nothing
\* reads it in between, so it is forgotten here with the output of the
\* call.
Release ==
    /\ phase = "returned"
    /\ phase' = "idle"
    /\ chunk' = EmptyChunk
    /\ parser' = NewParser(<<>>)
    /\ out' = <<>>
    /\ errout' = <<>>
    /\ pos' = 0
    /\ UNCHANGED <<pool, calls, result, compiler, cstk, stack, under, ub, globals>>

(***************************************************************************)
(* Sources, as the token streams the scanner makes of them                 *)
(***************************************************************************)
K(type) == Tok(type, <<>>, 1)
Id(name) == Tok("Identifier", <<name>>, 1)
Num(digits) == Tok("Number", digits, 1)
Str(chars) == Tok("String", <<"\"">> \o chars \o <<"\"">>, 1)
Err(message) == Tok("Error", message, 1)

\* the tokens toks, all on line l
OnLine(toks, l) == [i \in 1..Len(toks) |-> [toks[i] EXCEPT !.line = l]]

\* print 1 + 2 * 3;
SrcArith ==
    <<K("Print"), Num(<<"1">>), K("Plus"), Num(<<"2">>), K("Star"), Num(<<"3">>),
      K("Semicolon")>>

\* print "hi" + " " + "there";
SrcConcat ==
    <<K("Print"), Str(<<"h", "i">>), K("Plus"), Str(<<" ">>), K("Plus"),
      Str(<<"t", "h", "e", "r", "e">>), K("Semicolon")>>

\* var a = 10; { var a = a + 1; print a; } print a;
SrcShadowInit ==
    <<K("Var"), Id("a"), K("Equal"), Num(<<"1", "0">>), K("Semicolon"),
      K("LeftBrace"), K("Var"), Id("a"), K("Equal"), Id("a"), K("Plus"),
      Num(<<"1">>), K("Semicolon"), K("Print"), Id("a"), K("Semicolon"),
      K("RightBrace"), K("Print"), Id("a"), K("Semicolon")>>

\* var x; print x;
SrcNilGlobal ==
    <<K("Var"), Id("x"), K("Semicolon"), K("Print"), Id("x"), K("Semicolon")>>

\* { var a = 1; var b = 2; print a + b; }
SrcLocals ==
    <<K("LeftBrace"), K("Var"), Id("a"), K("Equal"), Num(<<"1">>), K("Semicolon"),
      K("Var"), Id("b"), K("Equal"), Num(<<"2">>), K("Semicolon"),
      K("Print"), Id("a"), K("Plus"), Id("b"), K("Semicolon"), K("RightBrace")>>

\* print 1 == "1";
SrcCrossEqual ==
    <<K("Print"), Num(<<"1">>), K("EqualEqual"), Str(<<"1">>), K("Semicolon")>>

\* print -"a";
SrcNegateString == <<K("Print"), K("Minus"), Str(<<"a">>), K("Semicolon")>>

\* print unknown;
SrcUnknown == <<K("Print"), Id("unknown"), K("Semicolon")>>

\* var a = ;
SrcNoInit == <<K("Var"), Id("a"), K("Equal"), K("Semicolon")>>

\* 1 + 2
SrcNoSemicolon == <<Num(<<"1">>), K("Plus"), Num(<<"2">>)>>

\* { var a = a; }
SrcSelfInit ==
    <<K("LeftBrace"), K("Var"), Id("a"), K("Equal"), Id("a"), K("Semicolon"),
      K("RightBrace")>>

\* { var a = 1; { var b = 2; print b; } }
SrcLocalGet ==
    <<K("LeftBrace"), K("Var"), Id("a"), K("Equal"), Num(<<"1">>), K("Semicolon"),
      K("LeftBrace"), K("Var"), Id("b"), K("Equal"), Num(<<"2">>), K("Semicolon"),
      K("Print"), Id("b"), K("Semicolon"), K("RightBrace"), K("RightBrace")>>

\* { var a = 1; { var b = 2; b = 3; } }
SrcLocalSet ==
    <<K("LeftBrace"), K("Var"), Id("a"), K("Equal"), Num(<<"1">>), K("Semicolon"),
      K("LeftBrace"), K("Var"), Id("b"), K("Equal"), Num(<<"2">>), K("Semicolon"),
      Id("b"), K("Equal"), Num(<<"3">>), K("Semicolon"),
      K("RightBrace"), K("RightBrace")>>

\* { var a; var b; var c; var d; var e; e; }
SrcFiveLocals ==
    <<K("LeftBrace"), K("Var"), Id("a"), K("Semicolon"), K("Var"), Id("b"),
      K("Semicolon"), K("Var"), Id("c"), K("Semicolon"), K("Var"), Id("d"),
      K("Semicolon"), K("Var"), Id("e"), K("Semicolon"), Id("e"), K("Semicolon"),
      K("RightBrace")>>

\* print !v; for a literal token v
SrcNot(v) == <<K("Print"), K("Bang"), v, K("Semicolon")>>

LiteralTokens ==
    {K("Nil"), K("False"), K("True"), Num(<<"0">>), Num(<<"2">>), Str(<<>>),
     Str(<<"a">>)}

\* var a = 1; var b = 2; var c = 3; var d = 4; var e = 5;   (line 1)
SrcFiveGlobals ==
    <<K("Var"), Id("a"), K("Equal"), Num(<<"1">>), K("Semicolon"),
      K("Var"), Id("b"), K("Equal"), Num(<<"2">>), K("Semicolon"),
      K("Var"), Id("c"), K("Equal"), Num(<<"3">>), K("Semicolon"),
      K("Var"), Id("d"), K("Equal"), Num(<<"4">>), K("Semicolon"),
      K("Var"), Id("e"), K("Equal"), Num(<<"5">>), K("Semicolon")>>

\* print l op r;
SrcBinary(l, op, r) == <<K("Print"), l, K(op), r, K("Semicolon")>>

\* print 0 / 0 == 0 / 0;
SrcNaNEqual ==
    <<K("Print"), Num(<<"0">>), K("Slash"), Num(<<"0">>), K("EqualEqual"),
      Num(<<"0">>), K("Slash"), Num(<<"0">>), K("Semicolon")>>

\* the five globals on line 1, print 1; on line 2, print l op r; on line 3
SrcBinaryLate(l, op, r) ==
    SrcFiveGlobals \o OnLine(<<K("Print"), Num(<<"1">>), K("Semicolon")>>, 2)
                   \o OnLine(SrcBinary(l, op, r), 3)

BinaryTokens ==
    {"Minus", "Star", "Slash", "Greater", "Less", "Plus", "EqualEqual",
     "BangEqual", "GreaterEqual", "LessEqual"}

\* the five globals on line 1, print -v; on line 2
SrcNegateLate(v) ==
    SrcFiveGlobals \o OnLine(<<K("Print"), K("Minus"), v, K("Semicolon")>>, 2)

\* print 1;   (line 1)
\* print unknown;   (line 2)
SrcUnknownLate ==
    <<K("Print"), Num(<<"1">>), K("Semicolon")>>
    \o OnLine(<<K("Print"), Id("unknown"), K("Semicolon")>>, 2)

\* var a = 1; print a = 3; print a;
SrcAssign ==
    <<K("Var"), Id("a"), K("Equal"), Num(<<"1">>), K("Semicolon"),
      K("Print"), Id("a"), K("Equal"), Num(<<"3">>), K("Semicolon"),
      K("Print"), Id("a"), K("Semicolon")>>

\* print a = 3;
SrcPrintAssign ==
    <<K("Print"), Id("a"), K("Equal"), Num(<<"3">>), K("Semicolon")>>

\* b = 1;
SrcAssignUndefined == <<Id("b"), K("Equal"), Num(<<"1">>), K("Semicolon")>>

\* print (1 + 2) * 3 - -4;
SrcGrouping ==
    <<K("Print"), K("LeftParen"), Num(<<"1">>), K("Plus"), Num(<<"2">>),
      K("RightParen"), K("Star"), Num(<<"3">>), K("Minus"), K("Minus"),
      Num(<<"4">>), K("Semicolon")>>

\* print @ 1;   with @ a character the scanner rejects
SrcErrorToken ==
    <<K("Print"), Err("Unexpected character."), Num(<<"1">>), K("Semicolon")>>

\* print @; var = 1; print 2;   two statements in error, then a valid one
SrcTwoErrors ==
    <<K("Print"), Err("Unexpected character."), K("Semicolon"), K("Var"),
      K("Equal"), Num(<<"1">>), K("Semicolon"), K("Print"), Num(<<"2">>),
      K("Semicolon")>>

\* var 1 @; print 2;   synchronize skips the character the scanner rejects
SrcErrorInSync ==
    <<K("Var"), Num(<<"1">>), Err("Unexpected character."), K("Semicolon"),
      K("Print"), Num(<<"2">>), K("Semicolon")>>

\* print 1 op1 2 op2 3;
SrcChain(op1, op2) ==
    <<K("Print"), Num(<<"1">>), K(op1), Num(<<"2">>), K(op2), Num(<<"3">>),
      K("Semicolon")>>

\* a + b = c;
SrcBadTarget ==
    <<Id("a"), K("Plus"), Id("b"), K("Equal"), Id("c"), K("Semicolon")>>

\* 1 = 2;
SrcBadLiteral == <<Num(<<"1">>), K("Equal"), Num(<<"2">>), K("Semicolon")>>

\* -a = 1;
SrcBadUnary ==
    <<K("Minus"), Id("a"), K("Equal"), Num(<<"1">>), K("Semicolon")>>

\* (a) = 1;
SrcBadGroup ==
    <<K("LeftParen"), Id("a"), K("RightParen"), K("Equal"), Num(<<"1">>),
      K("Semicolon")>>

\* sources that assign to something that is not a variable
BadTargets == {SrcBadTarget, SrcBadLiteral, SrcBadUnary, SrcBadGroup}

\* var 1; print 2;
SrcBadName ==
    <<K("Var"), Num(<<"1">>), K("Semicolon"), K("Print"), Num(<<"2">>),
      K("Semicolon")>>

\* { var a; var a; }
SrcRedefine ==
    <<K("LeftBrace"), K("Var"), Id("a"), K("Semicolon"), K("Var"), Id("a"),
      K("Semicolon"), K("RightBrace")>>

\* { var a; { var a; } }
SrcShadowLocal ==
    <<K("LeftBrace"), K("Var"), Id("a"), K("Semicolon"), K("LeftBrace"),
      K("Var"), Id("a"), K("Semicolon"), K("RightBrace"), K("RightBrace")>>

\* { var a; { var b; var a; } var b; }
SrcShadowLocalLate ==
    <<K("LeftBrace"), K("Var"), Id("a"), K("Semicolon"), K("LeftBrace"),
      K("Var"), Id("b"), K("Semicolon"), K("Var"), Id("a"), K("Semicolon"),
      K("RightBrace"), K("Var"), Id("b"), K("Semicolon"), K("RightBrace")>>

\* var a; var a;
SrcRedefineGlobal ==
    <<K("Var"), Id("a"), K("Semicolon"), K("Var"), Id("a"), K("Semicolon")>>

\* var a; { var a; }
SrcShadowGlobal ==
    <<K("Var"), Id("a"), K("Semicolon"), K("LeftBrace"), K("Var"), Id("a"),
      K("Semicolon"), K("RightBrace")>>

\* { var a; var @ a; }   with @ a character the scanner rejects
SrcRedefineAfterError ==
    <<K("LeftBrace"), K("Var"), Id("a"), K("Semicolon"), K("Var"),
      Err("Unexpected character."), Id("a"), K("Semicolon"), K("RightBrace")>>

\* { var a; var b
SrcOpenBlock ==
    <<K("LeftBrace"), K("Var"), Id("a"), K("Semicolon"), K("Var"), Id("b")>>

\* { var a = @ a; }   with @ a character the scanner rejects
SrcSelfInitAfterError ==
    <<K("LeftBrace"), K("Var"), Id("a"), K("Equal"), Err("Unexpected character."),
      Id("a"), K("Semicolon"), K("RightBrace")>>

\* { var a = a @; }   with @ a character the scanner rejects
SrcSelfInitBeforeError ==
    <<K("LeftBrace"), K("Var"), Id("a"), K("Equal"), Id("a"),
      Err("Unexpected character."), K("Semicolon"), K("RightBrace")>>

\* { var a = 1; { var a = a; } }
SrcSelfInitShadow ==
    <<K("LeftBrace"), K("Var"), Id("a"), K("Equal"), Num(<<"1">>), K("Semicolon"),
      K("LeftBrace"), K("Var"), Id("a"), K("Equal"), Id("a"), K("Semicolon"),
      K("RightBrace"), K("RightBrace")>>

\* { { var a; } var a; { var a; } }
SrcSiblingBlocks ==
    <<K("LeftBrace"), K("LeftBrace"), K("Var"), Id("a"), K("Semicolon"),
      K("RightBrace"), K("Var"), Id("a"), K("Semicolon"), K("LeftBrace"),
      K("Var"), Id("a"), K("Semicolon"), K("RightBrace"), K("RightBrace")>>

\* the decimal digits of a natural number
DigitChar(d) ==
    CASE d = 0 -> "0" [] d = 1 -> "1" [] d = 2 -> "2" [] d = 3 -> "3"
      [] d = 4 -> "4" [] d = 5 -> "5" [] d = 6 -> "6" [] d = 7 -> "7"
      [] d = 8 -> "8" [] d = 9 -> "9"

RECURSIVE DigitsOf(_)
DigitsOf(i) ==
    IF i < 10 THEN <<DigitChar(i)>>
    ELSE Append(DigitsOf(i \div 10), DigitChar(i % 10))

\* true == (true == ( ... (true) ... ));   with n parentheses
SrcNested(n) ==
    [i \in 1..(4 * n + 2) |->
        IF i <= 3 * n
        THEN CASE i % 3 = 1 -> K("True")
               [] i % 3 = 2 -> K("EqualEqual")
               [] i % 3 = 0 -> K("LeftParen")
        ELSE IF i = 3 * n + 1 THEN K("True")
        ELSE IF i <= 4 * n + 1 THEN K("RightParen")
        ELSE K("Semicolon")]

\* print 1 + 2 + ... + n;
SrcSum(n) ==
    [i \in 1..(2 * n + 1) |->
        IF i = 1 THEN K("Print")
        ELSE IF i = 2 * n + 1 THEN K("Semicolon")
        ELSE IF i % 2 = 0 THEN Num(DigitsOf(i \div 2))
        ELSE K("Plus")]

\* the identifier v<i>
IdN(i) == Tok("Identifier", <<"v">> \o DigitsOf(i), 1)

\* { var v1; ... var vn; { var z; var vn; } }
SrcManyLocals(n) ==
    [i \in 1..(3 * n + 10) |->
        IF i = 1 THEN K("LeftBrace")
        ELSE IF i <= 3 * n + 1
        THEN CASE i % 3 = 2 -> K("Var")
               [] i % 3 = 0 -> IdN(i \div 3)
               [] i % 3 = 1 -> K("Semicolon")
        ELSE <<K("LeftBrace"), K("Var"), Id("z"), K("Semicolon"), K("Var"),
               IdN(n), K("Semicolon"), K("RightBrace"), K("RightBrace")>>[i - 3 * n - 1]]

\* sources that reach the capacities of the program
LongPrograms ==
    {SrcNested(STACK_MAX - 1), SrcNested(STACK_MAX),
     SrcSum(UINT8_MAX + 1), SrcSum(UINT8_MAX + 2),
     SrcManyLocals(UINT8_COUNT - 2), SrcManyLocals(UINT8_COUNT - 1),
     SrcManyLocals(UINT8_COUNT)}

(***************************************************************************)
(* Specification                                                           *)
(***************************************************************************)
NumberTokens == {Num(<<"7">>), Num(<<"2">>), Num(<<"0">>)}

Programs ==
    {SrcArith, SrcConcat, SrcShadowInit, SrcNilGlobal, SrcLocals, SrcCrossEqual,
     SrcNegateString, SrcUnknown, SrcNoInit, SrcNoSemicolon, SrcSelfInit,
     SrcLocalGet, SrcLocalSet, SrcFiveLocals, SrcUnknownLate, SrcAssign,
     SrcAssignUndefined, SrcGrouping, SrcErrorToken, SrcBadTarget, SrcBadName,
     SrcRedefine, SrcShadowLocal, SrcShadowLocalLate, SrcRedefineGlobal,
     SrcShadowGlobal, SrcRedefineAfterError, SrcOpenBlock,
     SrcSelfInitAfterError, SrcSelfInitBeforeError, SrcSelfInitShadow,
     SrcSiblingBlocks, SrcNaNEqual, SrcPrintAssign, SrcTwoErrors,
     SrcErrorInSync}
    \cup {SrcBinary(l, "EqualEqual", r) : l \in LiteralTokens, r \in LiteralTokens}
    \cup BadTargets
    \cup {SrcNot(v) : v \in LiteralTokens}
    \cup {SrcChain(op1, op2) : op1 \in BinaryTokens, op2 \in BinaryTokens}
    \cup {SrcNegateLate(v) : v \in {K("Nil"), Str(<<"a">>), Num(<<"2">>)}}
    \cup {SrcBinary(l, op, r) : l \in NumberTokens, op \in BinaryTokens,
                                r \in {Num(<<"2">>), Num(<<"0">>)}}
    \cup {SrcBinary(l, op, r) : l \in {Num(<<"1">>), Str(<<"a">>), K("Nil")},
                                op \in BinaryTokens, r \in {Str(<<"a">>), K("True")}}
    \cup {SrcBinaryLate(l, op, r) : l \in {Num(<<"1">>), Str(<<"a">>)},
                                    op \in {"Minus", "Star", "Slash", "Greater", "Less", "Plus"},
                                    r \in {Str(<<"b">>), Num(<<"2">>)}}

\* the state after VM() (vm.hpp:48-52) and the construction of its members
InitWith(name) ==
    /\ pool = name
    /\ phase = "idle"
    /\ calls = 0
    /\ result = "NONE"
    /\ parser = NewParser(<<>>)
    /\ chunk = EmptyChunk
    /\ compiler = NewCompiler
    /\ cstk = <<>>
    /\ pos = 0
    /\ stack = <<>>
    /\ under = 0
    /\ ub = FALSE
    /\ globals = <<>>
    /\ out = <<>>
    /\ errout = <<>>

Init == InitWith("programs")

\* the sources of a pool
Sources(name) ==
    CASE name = "programs" -> Programs
      [] name = "long" -> Programs \cup LongPrograms

\* the interpret calls of a behaviour
CallLimit(name) == IF name = "long" THEN 1 ELSE MaxCalls

Call ==
    /\ phase = "idle"
    /\ calls < CallLimit(pool)
    /\ \E src \in Sources(pool) : Interpret(src)

Next ==
    \/ Call
    \/ CompileLoop
    \/ CompileEnd
    \/ Declaration
    \/ DeclarationEnd
    \/ VarDeclaration
    \/ VarDeclarationEnd
    \/ Statement
    \/ PrintStatementEnd
    \/ ExpressionStatementEnd
    \/ Block
    \/ EndScopeStep
    \/ ParsePrecedence
    \/ ParseInfix
    \/ GroupingEnd
    \/ UnaryEnd
    \/ BinaryEnd
    \/ NamedVariableEnd
    \/ Terminate
    \/ StackUB
    \/ OpConstant
    \/ OpLiteral
    \/ OpPop
    \/ OpPrint
    \/ OpReturn
    \/ OpNoCase
    \/ OpNot
    \/ OpNegate
    \/ OpEqual
    \/ OpBinary
    \/ OpAdd
    \/ OpGetGlobal
    \/ OpDefineGlobal
    \/ OpSetGlobal
    \/ Release

Spec == Init /\ [][Next]_vars

\* one interpret call on a new VM, long sources among the sources
InitLong == InitWith("long")

SpecLong == InitLong /\ [][Next]_vars

(***************************************************************************)
(* Properties                                                              *)
(***************************************************************************)
Ended == phase \in {"returned", "dead"}

\* the values of a sequence
Range(f) == {f[i] : i \in DOMAIN f}

\* C1: when the dispatch loop reads GET_LOCAL with operand s it pushes a
\* copy of stack[s] and goes on after the operand; when it reads SET_LOCAL
\* with operand s it stores peek() into stack[s], does not pop, and goes on
\* after the operand.
C1_LocalInstructions ==
    [][(Running /\ CanFetch /\ HasOperand
        /\ Byte \in {OP_GET_LOCAL, OP_SET_LOCAL} /\ pos' # pos)
       => /\ Running'
          /\ pos' = pos + 2
          /\ Operand < Len(stack)
          /\ stack' = IF Byte = OP_GET_LOCAL
                      THEN Append(stack, stack[Operand + 1])
                      ELSE [stack EXCEPT ![Operand + 1] = Peek(0)]]_vars

\* C2: when SUBTRACT, MULTIPLY, DIVIDE, GREATER or LESS finds operands
\* that are not both Numbers and the interpret call returns, it returns
\* RUNTIME_ERROR (not OK and not COMPILE_ERROR) with the stack reset.
C2_BinaryTypeError ==
    [][(Ready /\ Byte \in BinaryOpCodes
        /\ ~(Peek(0).k = "Number" /\ Peek(1).k = "Number")
        /\ phase' = "returned")
       => /\ result' = "RUNTIME_ERROR"
          /\ stack' = <<>>]_vars

\* C3: NOT pops v and pushes TRUE exactly when v is Nil or Bool(false),
\* FALSE for every other value.
C3_TruthinessLaw ==
    [][(Ready /\ Byte = OP_NOT)
       => stack' = Append(Popped(1),
                          BoolV(Peek(0) = NilV \/ Peek(0) = BoolV(FALSE)))]_vars

TooManyConstants == "Too many constants in one chunk"

\* C4: a compile that adds more than 256 constants to the chunk reports
\* "Too many constants in one chunk" and fails, and the operand emitted
\* together with a new constant is the index of that constant.
C4_ConstantPoolBound ==
    [][/\ (phase' # "compile" /\ Len(chunk'.constants) > UINT8_MAX + 1)
          => /\ TooManyConstants \in Range(parser'.raised)
             /\ result' = "COMPILE_ERROR"
       /\ (phase = "compile" /\ Len(chunk'.constants) = Len(chunk.constants) + 1
           /\ Len(chunk'.code) = Len(chunk.code) + 2)
          => chunk'.code[Len(chunk'.code)] = Len(chunk.constants)]_vars

OwnInitializer == "Can't read local variable in its own initializer."

\* C5: var a = 10; { var a = a + 1; print a; } print a;  returns OK and
\* prints 11, then 10.
C5_ShadowInitializerRuns ==
    (Ended /\ parser.src = SrcShadowInit)
    => (result = "OK" /\ out = <<NumberV(11), NumberV(10)>>)

\* C5, as amended: the call returns COMPILE_ERROR: the a of the initializer
\* resolves to the new local, whose depth is still -1, and "Can't read
\* local variable in its own initializer." is the one diagnostic; nothing
\* is run or printed, and on a new VM no global is defined.
C5_ShadowInitializerRejected ==
    (parser.src = SrcShadowInit /\ phase # "compile")
    => /\ phase = "returned"
       /\ result = "COMPILE_ERROR"
       /\ parser.diag = <<[line |-> 1, msg |-> OwnInitializer]>>
       /\ out = <<>>
       /\ Len(chunk.code) > 0
       /\ (calls = 1 => globals = <<>>)

C5_Witness ==
    /\ phase = "returned"
    /\ parser.src = SrcShadowInit
    /\ calls = 1

\* C6: the operand of a GET_LOCAL or SET_LOCAL is the stack slot of the
\* local: GET_LOCAL i pushes stack[i], SET_LOCAL i stores into it; and
\* { var a = 1; var b = 2; print a + b; }  prints 3 and returns OK.
C6_SlotMirroring ==
    [][/\ (Running /\ CanFetch /\ HasOperand /\ Byte = OP_GET_LOCAL /\ Running'
           /\ pos' # pos)
          => (Len(stack') > 0 /\ Operand < Len(stack)
              /\ stack'[Len(stack')] = stack[Operand + 1])
       /\ (Running /\ CanFetch /\ HasOperand /\ Byte = OP_SET_LOCAL /\ Running'
           /\ pos' # pos)
          => (Operand < Len(stack') /\ stack'[Operand + 1] = Peek(0))
       /\ (Ended' /\ parser'.src = SrcLocals)
          => (result' = "OK" /\ out' = <<NumberV(3)>>)]_vars

\* C7: the line a runtime error prints is the line-map entry at the index
\* of the last byte read, lines[ip - 1], and the lookup is in range.
C7_RuntimeErrorLine ==
    [][(Running /\ Len(errout') > Len(errout))
       => /\ pos' >= 1 /\ pos' <= Len(chunk.lines)
          /\ errout'[Len(errout')].line = chunk.lines[pos']]_vars

\* C8: a program that compiled without error never calls push with
\* stackTop at the end of the stack array.
C8_StackCapacity ==
    (Running /\ ~ReadThrows /\ PushesOnTop) => StackTop < STACK_MAX

\* errorAt is called with the message during the step
RaisedInStep(message) ==
    \E i \in (Len(parser.raised) + 1)..Len(parser'.raised) :
        parser'.raised[i] = message

\* the newest local with the name is still uninitialized
NewestIsUninitialized(name) ==
    \E i \in 1..Len(compiler.locals) :
        /\ compiler.locals[i].name = name
        /\ compiler.locals[i].depth = -1
        /\ \A j \in (i + 1)..Len(compiler.locals) : compiler.locals[j].name # name

\* C9: when an expression reads the identifier x while the newest local
\* named x still has depth -1 (the initializer of var x inside a block),
\* error is called with "Can't read local variable in its own initializer.",
\* the message is printed unless panic mode is set by then, hadError is set,
\* and the interpret call returns COMPILE_ERROR.
C9_SelfReference ==
    [][/\ (At("parsePrecedence") /\ parser.current.type = "Identifier"
           /\ NewestIsUninitialized(parser.current.text))
          => /\ RaisedInStep(OwnInitializer)
             /\ parser'.hadError
             /\ compiler.scopeDepth > 0
             /\ (~parser.panicMode /\ ScanToken(parser.src, parser.pos).type # "Error")
                => /\ Len(parser'.diag) = Len(parser.diag) + 1
                   /\ parser'.diag[Len(parser'.diag)].msg = OwnInitializer
       /\ (Ended' /\ OwnInitializer \in Range(parser'.raised))
          => (phase' = "returned" /\ result' = "COMPILE_ERROR")]_vars

C9_Witness ==
    /\ phase = "returned"
    /\ parser.src = SrcSelfInit
    /\ result = "COMPILE_ERROR"
    /\ parser.diag = <<[line |-> 1, msg |-> OwnInitializer]>>

Redefinition == "Re-definition of an existing variable in this scope."

\* C10: declaring var x reports "Re-definition of an existing variable in
\* this scope." if and only if a live local named x was declared in the
\* same block; a local of an enclosing block or a global never causes it,
\* and it never happens at global scope.
C10_Redefinition ==
    [][(At("varDeclaration") /\ parser.current.type = "Identifier")
       => (RaisedInStep(Redefinition)
           <=> /\ compiler.scopeDepth > 0
               /\ \E i \in 1..Len(compiler.locals) :
                     /\ compiler.locals[i].name = parser.current.text
                     /\ compiler.locals[i].decl = compiler.scopeDepth)]_vars

TooManyLocals == "Too many local variables declared in function."

RECURSIVE SumOf(_)
SumOf(counts) ==
    IF counts = <<>> THEN 0 ELSE Head(counts) + SumOf(Tail(counts))

\* the declarations made so far in the blocks that are open
LiveLocals == SumOf(compiler.open)

\* C11: a var declaration inside a block with localCount at 256 calls error
\* with "Too many local variables declared in function.", leaves localCount
\* at 256 and makes the compile fail; localCount never exceeds the size of
\* the locals array; and the error is raised only by a declaration that has
\* 256 or more declarations of the open blocks before it.
C11_LocalPoolBound ==
    [][/\ Len(compiler'.locals) <= UINT8_COUNT
       /\ (At("varDeclaration") /\ compiler.scopeDepth > 0
           /\ Len(compiler.locals) = UINT8_COUNT)
          => /\ RaisedInStep(TooManyLocals)
             /\ Len(compiler'.locals) = UINT8_COUNT
             /\ parser'.hadError
       /\ RaisedInStep(TooManyLocals)
          => (At("varDeclaration") /\ LiveLocals >= UINT8_COUNT)
       /\ (Ended' /\ TooManyLocals \in Range(parser'.raised))
          => (phase' = "returned" /\ result' = "COMPILE_ERROR")]_vars

C11_Witness ==
    /\ phase = "returned"
    /\ parser.src = SrcManyLocals(UINT8_COUNT)
    /\ result = "COMPILE_ERROR"
    /\ TooManyLocals \in {d.msg : d \in Range(parser.diag)}
    /\ compiler.locals = <<>>

\* the equality of the payloads of two values of the same kind
PayloadEqual(a, b) ==
    CASE a.k = "Nil" -> TRUE
      [] a.k = "Bool" -> a.b = b.b
      [] a.k = "Number" -> ~IsNaN(a) /\ ~IsNaN(b) /\ a.n * b.d = b.n * a.d
                           /\ (a.d = 0 <=> b.d = 0)
      [] a.k = "String" -> a.s = b.s

\* C12: EQUAL pops two values and pushes a Bool: false for two values of
\* differing kinds, the equality of the payloads for two of the same kind;
\* it writes no runtime error, goes on with the next instruction, and the
\* stack is one shorter.
C12_ValueEquality ==
    [][(Ready /\ Byte = OP_EQUAL)
       => /\ Running' /\ pos' = pos + 1 /\ errout' = errout
          /\ Len(stack') = Len(stack) - 1
          /\ SubSeq(stack', 1, Len(stack) - 2) = Popped(2)
          /\ stack'[Len(stack')] =
                BoolV(IF Peek(0).k # Peek(1).k THEN FALSE
                      ELSE PayloadEqual(Peek(0), Peek(1)))]_vars

C12_Witness ==
    /\ phase = "returned"
    /\ parser.src = SrcCrossEqual
    /\ result = "OK"
    /\ out = <<BoolV(FALSE)>>

\* C13: SET_GLOBAL on a name that is a key of globals binds the name to the
\* value on top of the stack and leaves the stack as it is; and with a
\* defined, on a VM whose stack pointer never left the stack array,
\* print a = 3;  prints 3, returns OK and leaves globals[a] = 3.
C13_AssignmentExpression ==
    [][/\ (Ready /\ Byte = OP_SET_GLOBAL /\ Name \in DOMAIN globals)
          => /\ globals' = [globals EXCEPT ![Name] = Peek(0)]
             /\ stack' = stack
             /\ Running' /\ pos' = pos + 2
       /\ (Ended' /\ parser'.src = SrcPrintAssign /\ <<"a">> \in DOMAIN globals' /\ ~ub')
          => /\ phase' = "returned" /\ result' = "OK"
             /\ out' = <<NumberV(3)>>
             /\ globals'[<<"a">>] = NumberV(3)]_vars

C13_Witness ==
    /\ phase = "returned"
    /\ parser.src = SrcPrintAssign
    /\ result = "OK"
    /\ out = <<NumberV(3)>>
    /\ <<"a">> \in DOMAIN globals
    /\ globals[<<"a">>] = NumberV(3)

\* C14: GET_GLOBAL and SET_GLOBAL on a name that is not a key of globals
\* write "Undefined variable '<name>'.", end the interpret call with
\* RUNTIME_ERROR and leave globals unchanged.
C14_UndefinedGlobal ==
    [][(Ready /\ Byte \in {OP_GET_GLOBAL, OP_SET_GLOBAL} /\ Name \notin DOMAIN globals)
       => /\ phase' = "returned"
          /\ result' = "RUNTIME_ERROR"
          /\ globals' = globals
          /\ Len(errout') = Len(errout) + 1
          /\ errout'[Len(errout')].msg = <<"Undefined variable '">> \o Name \o <<"'.">>]_vars

C14_Witness ==
    /\ phase = "returned"
    /\ parser.src = SrcAssignUndefined
    /\ result = "RUNTIME_ERROR"
    /\ <<"b">> \notin DOMAIN globals
    /\ Len(errout) = 1
    /\ errout[1].msg = <<"Undefined variable '", "b", "'.">>

\* C15: ADD on two Numbers pops both and pushes their sum; on two Strings
\* it pops both and pushes the concatenation, the lower operand first; on
\* every other pair it writes "Operands must be two numbers or two
\* strings." and the interpret call returns RUNTIME_ERROR.
C15_Add ==
    [][(Ready /\ Byte = OP_ADD)
       => CASE Peek(1).k = "Number" /\ Peek(0).k = "Number" ->
                 /\ Running' /\ pos' = pos + 1
                 /\ stack' = Append(Popped(2), NumAdd(Peek(1), Peek(0)))
            [] Peek(1).k = "String" /\ Peek(0).k = "String" ->
                 /\ Running' /\ pos' = pos + 1
                 /\ stack' = Append(Popped(2), StringV(Peek(1).s \o Peek(0).s))
            [] OTHER ->
                 /\ Len(errout') = Len(errout) + 1
                 /\ errout'[Len(errout')].msg =
                       <<"Operands must be two numbers or two strings.">>
                 /\ phase' = "returned"
                 /\ result' = "RUNTIME_ERROR"]_vars

\* C16: the chunk has as many line entries as bytes of code, during and
\* after every compile; a compile step only appends to the chunk, and each
\* line entry it appends is the line of the token that was the previous
\* token when the byte was emitted.
C16_LineMapParity ==
    [][/\ Len(chunk'.code) = Len(chunk'.lines)
       /\ phase = "compile"
          => /\ Len(chunk'.code) >= Len(chunk.code)
             /\ SubSeq(chunk'.code, 1, Len(chunk.code)) = chunk.code
             /\ SubSeq(chunk'.lines, 1, Len(chunk.lines)) = chunk.lines
             /\ \A i \in (Len(chunk.lines) + 1)..Len(chunk'.lines) :
                   chunk'.lines[i] \in {parser.previous.line, parser'.previous.line}]_vars

C16_Witness ==
    /\ phase = "run"
    /\ pos = 0
    /\ {1, 2, 3} \subseteq Range(chunk.lines)
    /\ Len(chunk.code) = Len(chunk.lines)

InterpretResults == {"OK", "COMPILE_ERROR", "RUNTIME_ERROR"}

\* C17: an interpret call ends by returning OK, COMPILE_ERROR or
\* RUNTIME_ERROR, and every instruction the VM loop runs moves the
\* instruction pointer forward.
C17_Terminates ==
    [][/\ Ended' => (phase' = "returned" /\ result' \in InterpretResults)
       /\ (Running /\ Running' /\ under' = under) => pos' > pos]_vars

\* C18: compile reads the source up to Eof whether or not an error was
\* reported; if an error was reported, a scanner Error token included,
\* interpret returns COMPILE_ERROR without running the chunk, so the call
\* prints nothing and leaves the globals and the operand stack as they
\* were; if none was reported, compile succeeds and the chunk is run.
C18_CompileError ==
    [][/\ phase = "compile" =>
            /\ UNCHANGED <<stack, under, globals, out, errout>>
            /\ out = <<>>
            /\ phase' \in {"compile", "run", "returned"}
       /\ (phase = "compile" /\ phase' # "compile") =>
            /\ parser.current.type = "Eof"
            /\ parser'.pos > Len(parser'.src)
            /\ IF parser'.raised # <<>>
               THEN /\ phase' = "returned"
                    /\ result' = "COMPILE_ERROR"
                    /\ parser'.hadError
               ELSE /\ phase' = "run"
                    /\ pos' = 0
                    /\ ~parser'.hadError
       /\ (Running \/ phase' = "dead") => parser.raised = <<>>]_vars

C18_Witness ==
    /\ phase = "returned"
    /\ result = "COMPILE_ERROR"
    /\ calls = 2
    /\ parser.src = SrcTwoErrors
    /\ Len(parser.diag) = 2
    /\ Len(chunk.code) > 1
    /\ globals # <<>>
    /\ out = <<>>

\* a step of declaration that calls synchronize
Synchronizes == At("declarationEnd") /\ parser.panicMode

\* C19: in panic mode a call of errorAt leaves the diagnostics and both
\* flags as they are, so a diagnostic is written only when panicMode goes
\* from clear to set, at most once after each synchronize; hadError, once
\* set, stays set until compile returns; only synchronize clears panicMode.
C19_PanicMode ==
    [][phase = "compile" =>
        /\ parser.panicMode =>
              ErrorAt(parser, parser.current, "Expect expression.")
                  = [parser EXCEPT !.raised = Append(@, "Expect expression.")]
        /\ (parser.panicMode /\ ~Synchronizes) =>
              /\ parser'.diag = parser.diag
              /\ parser'.panicMode
              /\ parser'.hadError = parser.hadError
        /\ (~parser.panicMode \/ Synchronizes) =>
              /\ Len(parser'.diag) \in {Len(parser.diag), Len(parser.diag) + 1}
              /\ Len(parser'.diag) = Len(parser.diag) + 1 <=> parser'.panicMode
        /\ parser.hadError => parser'.hadError
        /\ parser'.panicMode => parser'.hadError
        /\ SubSeq(parser'.diag, 1, Len(parser.diag)) = parser.diag]_vars

C19_Witness ==
    /\ phase = "returned"
    /\ parser.src = SrcErrorInSync
    /\ Len(parser.diag) = 2
    /\ Len(parser.raised) > 2
    /\ parser.hadError
    /\ ~parser.panicMode

\* C20: over the interpret calls of a VM, no key leaves globals and a key
\* keeps its value until a DEFINE_GLOBAL or SET_GLOBAL of that name runs,
\* whatever the results of the calls in between; what a call defined before
\* its runtime error stays defined.
C20_GlobalsPersist ==
    [][/\ DOMAIN globals \subseteq DOMAIN globals'
       /\ \A n \in DOMAIN globals :
             globals'[n] # globals[n] =>
                 /\ Ready
                 /\ Byte \in {OP_DEFINE_GLOBAL, OP_SET_GLOBAL}
                 /\ Name = n
       /\ \A n \in DOMAIN globals' \ DOMAIN globals :
             /\ Ready
             /\ Byte = OP_DEFINE_GLOBAL
             /\ Name = n
       /\ (Ready /\ ~Running') => globals' = globals]_vars

C20_Witness ==
    /\ phase = "returned"
    /\ calls = 2
    /\ result = "RUNTIME_ERROR"
    /\ parser.src = SrcNegateLate(Str(<<"a">>))
    /\ DOMAIN globals = {<<"x">>, <<"a">>, <<"b">>, <<"c">>, <<"d">>, <<"e">>}
    /\ globals[<<"x">>] = NilV
    /\ globals[<<"e">>] = NumberV(5)

\* C21: while the chunk of a source that compiled without error runs, no
\* instruction pops or peeks below the stack base; RETURN finds the operand
\* stack empty, and a call that returns OK leaves it empty.
C21_StackBalance ==
    [][/\ Running => (ReadThrows \/ Len(stack) >= StackNeed)
       /\ Running => (under = 0 /\ under' = 0)
       /\ (Ready /\ Byte = OP_RETURN) => stack = <<>>
       /\ (phase' = "returned" /\ result' = "OK") => stack' = <<>>]_vars

\* C22: outside of a running compile call, and so whenever compile has
\* returned and whenever the next one starts, scopeDepth is 0 and the local
\* table is empty, whatever the sources compiled before.
C22_TransientCompileState ==
    phase # "compile" => (compiler.scopeDepth = 0 /\ LocalCount(compiler) = 0)

C22_Witness ==
    /\ phase = "returned"
    /\ parser.src = SrcManyLocals(UINT8_COUNT)
    /\ parser.hadError
    /\ Len(chunk.code) > UINT8_COUNT
    /\ compiler.scopeDepth = 0
    /\ LocalCount(compiler) = 0

\* the locals declared in the blocks that enclose the one at depth d
DeclaredOutside(d) == SelectSeq(compiler.locals, LAMBDA l : l.decl < d)

\* C23: the endScope of a block takes scopeDepth back by one, removes the
\* locals declared in that block and no local of an enclosing block, and
\* emits one POP for each local it removes, errors or not.
C23_BlockScope ==
    [][At("endScope") =>
        /\ compiler'.scopeDepth = compiler.scopeDepth - 1
        /\ compiler'.locals = DeclaredOutside(compiler.scopeDepth)
        /\ Len(chunk'.code) - Len(chunk.code)
              = LocalCount(compiler) - LocalCount(compiler')
        /\ \A i \in (Len(chunk.code) + 1)..Len(chunk'.code) :
              chunk'.code[i] = OP_POP]_vars

\* C24: a local enters the table with depth -1, and the only change of its
\* depth is from -1 to the current scopeDepth, made while it is the newest
\* local by the defineVariable of its declaration; the depth of any other
\* local stays as it is.
C24_DepthSetOnce ==
    [][/\ \A i \in (LocalCount(compiler) + 1)..LocalCount(compiler') :
             compiler'.locals[i].depth = -1
       /\ \A i \in 1..LocalCount(compiler) :
             (i <= LocalCount(compiler')
              /\ compiler'.locals[i].depth # compiler.locals[i].depth) =>
                 /\ At("varDeclarationEnd")
                 /\ i = LocalCount(compiler)
                 /\ compiler.locals[i].depth = -1
                 /\ compiler'.locals[i].depth = compiler.scopeDepth]_vars

\* C25: in every state of the compiler, between the steps of its routines,
\* the depths of the initialized locals do not decrease along the table,
\* only the newest local can have depth -1, and every initialized local has
\* a depth from 1 to scopeDepth.
C25_DepthOrder ==
    LET ls == compiler.locals
        n == LocalCount(compiler)
    IN /\ \A i \in 1..(n - 1) :
             (ls[i].depth >= 0 /\ ls[i + 1].depth >= 0)
                 => ls[i].depth <= ls[i + 1].depth
       /\ \A i \in 1..(n - 1) : ls[i].depth # -1
       /\ \A i \in 1..n :
             ls[i].depth # -1 => ls[i].depth \in 1..compiler.scopeDepth

C25_Witness ==
    /\ phase = "compile"
    /\ LocalCount(compiler) = UINT8_COUNT
    /\ compiler.scopeDepth = 2
    /\ compiler.locals[UINT8_COUNT].depth = 2
    /\ compiler.locals[UINT8_COUNT].decl = 1
    /\ compiler.locals[UINT8_COUNT - 1].depth = 1

\* the place in the source of the current token of parser p
CurIndex(p) == IF p.current.type = "Eof" THEN Len(p.src) + 1 ELSE p.pos - 1

\* the token advance leaves in previous when current is the token at i of
\* the source of parser p: the last one before i the scanner accepted
PreviousOf(p, i) ==
    LET valid == {j \in CurIndex(p)..(i - 1) : p.src[j].type # "Error"}
    IN IF i = CurIndex(p) THEN p.previous
       ELSE p.src[CHOOSE j \in valid : \A h \in valid : h <= j]

\* with the token at i current, the loop of synchronize returns
StopsAt(p, i) ==
    \/ ScanToken(p.src, i).type = "Eof"
    \/ PreviousOf(p, i).type = "Semicolon"
    \/ ScanToken(p.src, i).type \in {"Class", "Fun", "Var", "For", "If", "While",
                                     "Print", "Return"}

\* the step is a call of synchronize that returns at the first token where
\* its loop can stop, and writes nothing to the chunk
SynchronizeStops ==
    /\ parser'.src = parser.src
    /\ CurIndex(parser') >= CurIndex(parser)
    /\ StopsAt(parser, CurIndex(parser'))
    /\ parser'.current = ScanToken(parser.src, CurIndex(parser'))
    /\ parser'.previous = PreviousOf(parser, CurIndex(parser'))
    /\ \A i \in CurIndex(parser)..(CurIndex(parser') - 1) :
          parser.src[i].type # "Error" => ~StopsAt(parser, i)
    /\ chunk' = chunk

\* synchronize went over a token the scanner rejected
ErrorSkipped ==
    \E i \in (CurIndex(parser) + 1)..(CurIndex(parser') - 1) :
        parser.src[i].type = "Error"

\* C26 as stated: synchronize returns with panicMode false, at the first
\* token where the previous token is ';' or the current one starts a
\* statement or is Eof, and emits no bytecode.
C26_SynchronizeClears ==
    [][Synchronizes => (SynchronizeStops /\ ~parser'.panicMode)]_vars

\* C26, amended: synchronize returns at the first token where the previous
\* token is ';' or the current one starts a statement or is Eof, and emits
\* no bytecode; panicMode is false on return unless synchronize went over
\* a token the scanner rejected, which sets it again and writes one
\* diagnostic.
C26_Synchronize ==
    [][Synchronizes =>
        /\ SynchronizeStops
        /\ parser'.panicMode <=> ErrorSkipped
        /\ Len(parser'.diag) = Len(parser.diag) + (IF ErrorSkipped THEN 1 ELSE 0)]_vars

C26_Witness ==
    /\ phase = "compile"
    /\ parser.src = SrcErrorInSync
    /\ parser.previous.type = "Semicolon"
    /\ parser.current.type = "Print"
    /\ parser.panicMode
    /\ Len(parser.diag) = 2

\* C27: DEFINE_GLOBAL binds the name of its String constant to the value on
\* top of the stack, defined before or not, changes no other binding, and
\* pops that value; and on a VM whose stack pointer never left the stack
\* array,  var x; print x;  prints nil, returns OK and leaves x bound to nil.
C27_DefineGlobal ==
    [][/\ (Ready /\ Byte = OP_DEFINE_GLOBAL) =>
            /\ DOMAIN globals' = DOMAIN globals \cup {Name}
            /\ globals'[Name] = Peek(0)
            /\ \A n \in DOMAIN globals \ {Name} : globals'[n] = globals[n]
            /\ stack' = Popped(1)
            /\ Running' /\ pos' = pos + 2
            /\ out' = out /\ errout' = errout
       /\ (Ended' /\ parser'.src = SrcNilGlobal /\ ~ub') =>
            /\ phase' = "returned" /\ result' = "OK"
            /\ out' = <<NilV>>
            /\ globals'[<<"x">>] = NilV]_vars

C27_Witness ==
    /\ phase = "returned"
    /\ calls = 2
    /\ parser.src = SrcNilGlobal
    /\ result = "OK"
    /\ out = <<NilV>>
    /\ DOMAIN globals = {<<"a">>, <<"x">>}
    /\ globals[<<"x">>] = NilV
    /\ globals[<<"a">>] = NumberV(3)

\* C28: SUBTRACT, DIVIDE, GREATER and LESS on a stack that ends in the
\* Numbers l, r (r on top) pop both and push l op r.
C28_OperandOrder ==
    [][(/\ Ready
        /\ Byte \in {OP_SUBTRACT, OP_DIVIDE, OP_GREATER, OP_LESS}
        /\ Peek(0).k = "Number" /\ Peek(1).k = "Number") =>
          LET l == Peek(1)
              r == Peek(0)
          IN /\ Running' /\ pos' = pos + 1
             /\ errout' = errout
             /\ stack' = Append(Popped(2),
                    CASE Byte = OP_SUBTRACT -> NumSub(l, r)
                      [] Byte = OP_DIVIDE -> NumDiv(l, r)
                      [] Byte = OP_GREATER -> BoolV(NumLess(r, l))
                      [] Byte = OP_LESS -> BoolV(NumLess(l, r)))]_vars

C28_Witness ==
    /\ phase = "returned"
    /\ parser.src = SrcBinary(Num(<<"7">>), "Minus", Num(<<"2">>))
    /\ result = "OK"
    /\ out = <<NumberV(5)>>

\* the chunk of  print a op1 b op2 c;  with a, b, c the constants 0, 1, 2
ChainCode(op1, op2) ==
    <<OP_CONSTANT, 0, OP_CONSTANT, 1>>
    \o (IF GetRule(op2).precedence > GetRule(op1).precedence
        THEN <<OP_CONSTANT, 2>> \o BinaryOps(op2) \o BinaryOps(op1)
        ELSE BinaryOps(op1) \o <<OP_CONSTANT, 2>> \o BinaryOps(op2))
    \o <<OP_PRINT, OP_RETURN>>

\* C29: once  print 1 op1 2 op2 3;  is compiled, the chunk holds the three
\* constants and the opcodes of op2 before those of op1 when op2 binds
\* tighter than op1, and the opcodes of op1 before the third constant
\* otherwise; run on a VM whose stack pointer never left the stack array,
\* print 1 + 2 * 3;  prints 7 and  print 1 - 2 - 3;  prints -4.
C29_Precedence ==
    /\ \A op1 \in BinaryTokens, op2 \in BinaryTokens :
          (phase \in {"run", "returned", "dead"} /\ parser.src = SrcChain(op1, op2)) =>
              /\ ~parser.hadError
              /\ chunk.code = ChainCode(op1, op2)
              /\ chunk.constants = <<NumberV(1), NumberV(2), NumberV(3)>>
    /\ (Ended /\ ~ub /\ parser.src = SrcChain("Plus", "Star")) =>
          (phase = "returned" /\ result = "OK" /\ out = <<NumberV(7)>>)
    /\ (Ended /\ ~ub /\ parser.src = SrcChain("Minus", "Minus")) =>
          (phase = "returned" /\ result = "OK" /\ out = <<NumberV(-4)>>)

C29_Witness ==
    /\ phase = "returned"
    /\ parser.src = SrcChain("Plus", "Star")
    /\ chunk.code = <<OP_CONSTANT, 0, OP_CONSTANT, 1, OP_CONSTANT, 2,
                      OP_MULTIPLY, OP_ADD, OP_PRINT, OP_RETURN>>
    /\ result = "OK"
    /\ out = <<NumberV(7)>>

InvalidTarget == "Invalid assignment target."

\* C30: when the operators of an expression parsed at Assignment precedence
\* are used up and the next token is '=', the compiler consumes it and
\* reports "Invalid assignment target."; the operand of a binary or unary
\* operator is parsed above Assignment precedence, where an identifier is
\* compiled as a read and leaves the '=' alone; so  a + b = c;  1 = 2;
\* -a = 1;  and  (a) = 1;  fail to compile, with that report and without
\* any assignment in the chunk.
C30_InvalidTarget ==
    [][/\ (/\ At("parseInfix")
           /\ Top.a <= PREC_ASSIGNMENT
           /\ Top.a > GetRule(parser.current.type).precedence
           /\ parser.current.type = "Equal") =>
              /\ RaisedInStep(InvalidTarget)
              /\ parser'.previous.type = "Equal"
              /\ chunk' = chunk
              /\ parser'.raised # <<>>
       /\ RaisedInStep(InvalidTarget) =>
              (At("parseInfix") /\ parser.current.type = "Equal")
       /\ \A i \in 2..Len(cstk') :
              (cstk'[i].pc = "parsePrecedence"
               /\ cstk'[i - 1].pc \in {"binaryEnd", "unaryEnd"})
                  => cstk'[i].a > PREC_ASSIGNMENT
       /\ (/\ At("parsePrecedence")
           /\ Top.a > PREC_ASSIGNMENT
           /\ parser.current.type = "Identifier") =>
              /\ parser'.previous.type = "Identifier"
              /\ Len(chunk'.code) = Len(chunk.code) + 2
              /\ chunk'.code[Len(chunk'.code) - 1] \in {OP_GET_GLOBAL, OP_GET_LOCAL}
       /\ (phase = "compile" /\ phase' # "compile" /\ parser'.src \in BadTargets) =>
              /\ InvalidTarget \in Range(parser'.raised)
              /\ phase' = "returned" /\ result' = "COMPILE_ERROR"
              /\ \A i \in 1..Len(chunk'.code) :
                    chunk'.code[i] \notin {OP_SET_GLOBAL, OP_SET_LOCAL}]_vars

C30_Witness ==
    /\ phase = "returned"
    /\ parser.src = SrcBadTarget
    /\ result = "COMPILE_ERROR"
    /\ {d.msg : d \in Range(parser.diag)} = {InvalidTarget}
    /\ chunk.code = <<OP_GET_GLOBAL, 0, OP_GET_GLOBAL, 1, OP_ADD, OP_POP,
                      OP_RETURN>>

\* C31: NEGATE on a Number replaces the top of the stack by its negation
\* and leaves the rest of the stack as it is; on any other value it writes
\* "Operand must be a number.", resets the stack and the interpret call
\* returns RUNTIME_ERROR.
C31_Negate ==
    [][(Ready /\ Byte = OP_NEGATE) =>
         IF Peek(0).k = "Number"
         THEN /\ Running' /\ pos' = pos + 1
              /\ errout' = errout
              /\ stack' = Append(Popped(1), NumNeg(Peek(0)))
         ELSE /\ Len(errout') = Len(errout) + 1
              /\ errout'[Len(errout')].msg = <<"Operand must be a number.">>
              /\ stack' = <<>>
              /\ phase' = "returned"
              /\ result' = "RUNTIME_ERROR"]_vars

====
